---- MODULE Spec2Model ----
(***************************************************************************)
(* A state-machine model of the acquisition-and-relay service:            *)
(*   src/utils/downloader.py  download() - the tiered fetch/retry engine   *)
(*   src/main.py              TelegramUploader, TelegramDBManager,         *)
(*                            LocalDownloadManager, DownloadManager and    *)
(*                            the HTTP handlers that drive them.           *)
(* Every coroutine is cut at its await points: one action is the code      *)
(* that runs between two awaits.  External collaborators (the fetch tool,  *)
(* the transcoder, the messaging backend) answer nondeterministically.     *)
(***************************************************************************)
EXTENDS Integers, Sequences, FiniteSets, TLC

(***************************************************************************)
(* Bounds of the model and the small input sets.                           *)
(***************************************************************************)
Procs == {"p1", "p2"}
Vids == {"abc123", "xyz"}
Kinds == {"audio", "video"}
Types == Kinds \cup {"other"}

\* Program constants (src/main.py:33-34, :27).
TELEGRAM_FILE_LIMIT == 50 * 1024 * 1024
TELEGRAM_VIDEO_LIMIT == 50 * 1024 * 1024
MB == 1024 * 1024

\* Sizes a fetched artifact may have on disk (0 = an empty partial file).
FileSizes == {0, TELEGRAM_FILE_LIMIT, TELEGRAM_FILE_LIMIT + 1}

None == [tag |-> "None"]

(***************************************************************************)
(* Paths.  A path is a directory, a base name and the list of its          *)
(* suffixes; os.path.splitext sees the last suffix only.                   *)
(***************************************************************************)
DOWNLOAD_FOLDER == "downloads"
NoPath == [dir |-> "", name |-> "", exts |-> <<>>]
Path(dir, name, exts) == [dir |-> dir, name |-> name, exts |-> exts]
splitext(path) == IF path.exts = <<>> THEN "" ELSE path.exts[Len(path.exts)]

VARIABLES
    disk,            \* the file system: existing path -> size in bytes
    pc,              \* pc[p]: where the coroutine run by p is suspended
    entry,           \* entry[p]: the top-level operation p is running
    video_id,        \* video_id[p], media_type[p]: arguments of that operation
    media_type,
    attempt_no,      \* download(): index into tries      (0-based)
    retry_no,        \* download(): index into backoff    (0-based)
    delay,           \* download(): the backoff delay of the current retry
    dl_result,       \* download(): what the call returned or raised
    dl_last,         \* history: outcome of the latest _run_ydl invocation of the call
    dl_tiers,        \* history: tier of each _run_ydl invocation of the call, in order
    dl_waits,        \* history: seconds slept right before each of them
    dl_existed,      \* history: did the canonical file exist when the call began
    fetched_ok,      \* history: (video_id, type) pairs a download() returned a path for
    up,              \* up[p]: the locals of upload_file and _compress_if_needed
    tmp_count,       \* number of names tempfile.NamedTemporaryFile has handed out
    channel_cache,   \* TelegramDBManager.channel_cache: video_id -> (file_info, timestamp)
    now,             \* time.time(), in seconds
    sr,              \* sr[p]: the locals of search_in_db_channel and _deep_search_channel
    background_upload_tasks,  \* main.py line 43: task_id -> status record
    telegram_configured,      \* lines 698-699: were telegram_db / telegram_uploader built
    rq,              \* rq[p]: the locals of the request p is serving
    requests         \* number of requests accepted so far

dlVars == <<attempt_no, retry_no, delay, dl_result, dl_last, dl_tiers, dl_waits,
            dl_existed, fetched_ok>>
procVars == <<pc, entry, video_id, media_type>>
upVars == <<up, tmp_count>>
srVars == <<channel_cache, sr>>
orVars == <<background_upload_tasks, telegram_configured, rq, requests>>
vars == <<disk, procVars, dlVars, upVars, srVars, now, orVars>>
\* What download() leaves alone, what upload_file leaves alone, and what the
\* directory search leaves alone.
dlFrame == <<upVars, srVars, now, orVars>>
upFrame == <<dlVars, srVars, now, orVars>>
srFrame == <<disk, dlVars, upVars, now, orVars>>

exists(path) == path \in DOMAIN disk
getsize(path) == disk[path]
WriteFile(d, path, size) == [q \in DOMAIN d \cup {path} |-> IF q = path THEN size ELSE d[q]]
RemoveFile(d, path) == [q \in DOMAIN d \ {path} |-> d[q]]

(***************************************************************************)
(* src/utils/downloader.py                                                 *)
(***************************************************************************)
backoff == <<0, 1, 2, 4>>

\* A fourth tier that the source does not have.
triesFour(type_) == <<"best", "best", "worst", "worst">>

\* The format selectors of the three tiers, per type.
tries(type_) ==
    IF type_ = "audio"
    THEN <<"bestaudio[abr<=128]/bestaudio", "bestaudio/best", "worstaudio/worst">>
    ELSE <<"bestvideo[height<=720]+bestaudio/best", "bestvideo+bestaudio/best",
           "worstvideo/worst+bestaudio/worst">>

\* The canonical output path of (video_id, type_).
file_path(vid, type_) ==
    Path(DOWNLOAD_FOLDER, vid, IF type_ = "audio" THEN <<".webm">> ELSE <<".mp4">>)

CanonPaths == {file_path(v, t) : v \in Vids, t \in Kinds}

\* What one _run_ydl invocation can do: return or raise an exception whose
\* lower-cased text does or does not contain each of the three substrings the
\* engine looks for, and leave the output file absent/untouched (wrote = -1)
\* or written with some size.
NoExc == [raised |-> FALSE, fmt |-> FALSE, web |-> FALSE, r429 |-> FALSE]
Excs == [raised : {TRUE}, fmt : BOOLEAN, web : BOOLEAN, r429 : BOOLEAN]
FetchOutcomes == [res : {NoExc} \cup Excs, wrote : FileSizes \cup {-1}]
\* The same with two sizes only, for the engine called on its own.
DlSizes == {0, TELEGRAM_FILE_LIMIT}
DlOutcomes == {o \in FetchOutcomes : o.wrote \in DlSizes \cup {-1}}
DlVids == {"abc123"}

\* line 71: "requested format is not available" in err
\*          or "unable to download webpage" in err and "429" in err
RateOrFormat(err) == err.fmt \/ (err.web /\ err.r429)
\* lines 71-75: does the except clause leave the retry loop of the tier?
BreakTierNoFormat(err, r) == r = Len(backoff) - 1
BreakTierEarly(err, r) == (RateOrFormat(err) /\ err.fmt) \/ r = Len(backoff) - 2
BreakTier(err, r) == (RateOrFormat(err) /\ err.fmt) \/ r = Len(backoff) - 1

\* lines 41 and 50: the engine's own cache, the file left by an earlier call.
LocalCopyIgnored(vid, type_) == FALSE
LocalCopyOrFetching(vid, type_) ==
    \/ exists(file_path(vid, type_))
    \/ \E q \in Procs : pc[q] = "dl_fetch" /\ video_id[q] = vid /\ media_type[q] = type_
LocalCopy(vid, type_) == exists(file_path(vid, type_))

DlRet(tag, path) == [tag |-> tag, path |-> path]
NoRet == DlRet("none", NoPath)
NoOutcome == NoExc

\* lines 65-76: after an invocation at retry r, is the tier left?  A normal
\* return without the file falls through to the next retry; the loop of the
\* tier ends by itself after the last delay.
LeaveTier(o, r) ==
    IF o.res.raised THEN BreakTier(o.res, r) ELSE r = Len(backoff) - 1

\* line 66: _run_ydl is invoked (the coroutine suspends in it).
InvokeFetch(p, a, waited) ==
    /\ pc' = [pc EXCEPT ![p] = "dl_fetch"]
    /\ dl_tiers' = [dl_tiers EXCEPT ![p] = Append(@, a)]
    /\ dl_waits' = [dl_waits EXCEPT ![p] = Append(@, waited)]

\* lines 61-66: the top of the retry loop at tier a, retry r.
StartAttempt(p, a, r) ==
    /\ attempt_no' = [attempt_no EXCEPT ![p] = a]
    /\ retry_no' = [retry_no EXCEPT ![p] = r]
    /\ delay' = [delay EXCEPT ![p] = backoff[r + 1]]
    /\ dl_result' = dl_result
    /\ IF backoff[r + 1] # 0
       THEN /\ pc' = [pc EXCEPT ![p] = "dl_sleep"]
            /\ UNCHANGED <<dl_tiers, dl_waits>>
       ELSE InvokeFetch(p, a, 0)

\* download() ends: it returns file_path or raises.
FinishDownload(p, ret) ==
    /\ pc' = [pc EXCEPT ![p] = "dl_done"]
    /\ dl_result' = [dl_result EXCEPT ![p] = ret]
    /\ UNCHANGED <<attempt_no, retry_no, delay, dl_tiers, dl_waits>>

\* lines 37-66: download(video_id, type_) up to its first await.
download(p, vid, type_) ==
    /\ video_id' = [video_id EXCEPT ![p] = vid]
    /\ media_type' = [media_type EXCEPT ![p] = type_]
    /\ dl_last' = [dl_last EXCEPT ![p] = NoOutcome]
    /\ dl_existed' = [dl_existed EXCEPT ![p] = type_ \in Kinds /\ exists(file_path(vid, type_))]
    /\ IF type_ \notin Kinds
       THEN FinishDownload(p, DlRet("ValueError", NoPath))
       ELSE IF LocalCopy(vid, type_)
       THEN FinishDownload(p, DlRet("path", file_path(vid, type_)))
       ELSE StartAttempt(p, 0, 0)
    /\ UNCHANGED fetched_ok

\* line 64: asyncio.sleep(delay) is over; line 66 follows.
download_wake(p) ==
    /\ pc[p] = "dl_sleep"
    /\ InvokeFetch(p, attempt_no[p], delay[p])
    /\ UNCHANGED <<disk, entry, video_id, media_type, attempt_no, retry_no, delay,
                   dl_result, dl_last, dl_existed, fetched_ok, dlFrame>>

\* lines 66-68: the invocation came back without raising and the file is there.
FetchedByReturn(o, d, fp) == ~o.res.raised
Fetched(o, d, fp) == ~o.res.raised /\ fp \in DOMAIN d

\* lines 66-77: _run_ydl returns or raises with outcome o; the engine runs on
\* to its next await or to its end.
download_fetched(p, o) ==
    /\ pc[p] = "dl_fetch"
    /\ LET fp == file_path(video_id[p], media_type[p])
           d2 == IF o.wrote = -1 THEN disk ELSE WriteFile(disk, fp, o.wrote)
           a == attempt_no[p]
           r == retry_no[p]
       IN /\ disk' = d2
          /\ dl_last' = [dl_last EXCEPT ![p] = o.res]
          /\ IF Fetched(o, d2, fp)
             THEN FinishDownload(p, DlRet("path", fp))
             ELSE IF ~LeaveTier(o, r)
             THEN StartAttempt(p, a, r + 1)
             ELSE IF a + 1 < Len(tries(media_type[p]))
             THEN StartAttempt(p, a + 1, 0)
             ELSE FinishDownload(p, DlRet("RuntimeError", NoPath))
    /\ UNCHANGED <<entry, video_id, media_type, dl_existed, fetched_ok, dlFrame>>

(***************************************************************************)
(* src/main.py: TelegramUploader.upload_file and _compress_if_needed       *)
(***************************************************************************)
\* Sizes the transcoder may leave in its output file.
TranscodeSizes == {45 * MB, TELEGRAM_FILE_LIMIT, 60 * MB}
\* One transcoder run: its exit status (rc0: returncode == 0) and what it did
\* to its output path (wrote = -1: nothing).
TranscodeOutcomes == [rc0 : BOOLEAN, wrote : TranscodeSizes \cup {-1}]

audio_bitrates == <<"128k", "96k", "64k">>
video_bitrates == <<"1M", "800k", "500k">>

\* line 279
file_limit(type_) == IF type_ = "video" THEN TELEGRAM_VIDEO_LIMIT ELSE TELEGRAM_FILE_LIMIT

\* line 281: "if file_size <= file_limit: return file_path", negated.
TooLargeAtLimit(size, type_) == size >= file_limit(type_)
TooLarge(size, type_) == size > file_limit(type_)

\* line 286: the name NamedTemporaryFile(suffix=file_ext) hands out.
TempPath(n, ext) == Path("tmp", ToString(n), <<ext>>)
\* line 300: temp_path + ".webm"
WebmPath(temp) == Path(temp.dir, temp.name, Append(temp.exts, ".webm"))

UpRet(status, message) ==
    [status |-> status, message |-> message, file_size |-> -1, compressed |-> FALSE]
NoUp ==
    [file_path |-> NoPath, orig |-> NoPath, compressed_path |-> NoPath, file_size |-> -1,
     file_ext |-> "", temp_path |-> NoPath, success |-> FALSE, ix |-> 0,
     api_method |-> "", posted |-> "", attempts |-> <<>>, result |-> UpRet("", "")]

\* lines 201-220: the transfer method, from the kind, the suffix and the size.
ApiMethodByKindOnly(type_, ext, size) ==
    IF type_ = "audio" \/ ext \in {".mp3", ".m4a", ".ogg", ".wav", ".webm"} THEN "sendAudio"
    ELSE IF type_ = "video" \/ ext \in {".mp4", ".mkv", ".avi", ".mov", ".webm"} THEN "sendVideo"
    ELSE "sendDocument"
ApiMethodAtLimit(type_, ext, size) ==
    IF type_ = "audio" \/ ext \in {".mp3", ".m4a", ".ogg", ".wav", ".webm"}
    THEN IF size >= TELEGRAM_FILE_LIMIT THEN "sendDocument" ELSE "sendAudio"
    ELSE IF type_ = "video" \/ ext \in {".mp4", ".mkv", ".avi", ".mov", ".webm"}
    THEN IF size >= TELEGRAM_VIDEO_LIMIT THEN "sendDocument" ELSE "sendVideo"
    ELSE "sendDocument"
ApiMethod(type_, ext, size) ==
    IF type_ = "audio" \/ ext \in {".mp3", ".m4a", ".ogg", ".wav", ".webm"}
    THEN IF size > TELEGRAM_FILE_LIMIT THEN "sendDocument" ELSE "sendAudio"
    ELSE IF type_ = "video" \/ ext \in {".mp4", ".mkv", ".avi", ".mov", ".webm"}
    THEN IF size > TELEGRAM_VIDEO_LIMIT THEN "sendDocument" ELSE "sendVideo"
    ELSE "sendDocument"

\* lines 184-222: upload_file from the planner's return value cpath to its
\* await of session.post; d is the disk the planner leaves.
ResumeUpload(p, d, u, cpath, type_) ==
    LET substituted == cpath # NoPath /\ cpath # u.file_path
        fp == IF substituted THEN cpath ELSE u.file_path
        size == IF substituted THEN d[fp] ELSE u.file_size
        ext == IF substituted THEN splitext(fp) ELSE u.file_ext
    IN /\ disk' = d
       /\ pc' = [pc EXCEPT ![p] = "up_post"]
       /\ up' = [up EXCEPT ![p] = [u EXCEPT !.compressed_path = cpath,
                                            !.file_path = fp,
                                            !.file_size = size,
                                            !.file_ext = ext,
                                            !.api_method = ApiMethod(type_, ext, size)]]

\* lines 315-323: what _compress_if_needed returns at its end, and the disk.
PlannerReturn(d, u, success) ==
    IF success /\ u.temp_path \in DOMAIN d
    THEN [ret |-> u.temp_path, disk |-> d]
    ELSE [ret |-> u.orig,
          disk |-> IF u.temp_path \in DOMAIN d THEN RemoveFile(d, u.temp_path) ELSE d]

PlannerEnd(p, d, u, success) ==
    LET r == PlannerReturn(d, u, success)
    IN ResumeUpload(p, r.disk, [u EXCEPT !.success = success], r.ret, media_type[p])

\* lines 295 and 312: does the attempt end the bitrate loop?
GoodEnoughNever(d, temp, success, type_) == FALSE
GoodEnoughAnySize(d, temp, success, type_) == success
GoodEnough(d, temp, success, type_) == success /\ d[temp] <= file_limit(type_)

\* lines 173-183, 275-301: upload_file(file_path, video_id, media_type) up to
\* its first await.  tmp_ok: NamedTemporaryFile could create its file.
upload_file(p, path, vid, type_, tmp_ok) ==
    /\ video_id' = [video_id EXCEPT ![p] = vid]
    /\ media_type' = [media_type EXCEPT ![p] = type_]
    /\ LET u == [NoUp EXCEPT !.file_path = path, !.orig = path]
       IN IF ~exists(path)
          THEN /\ up' = [up EXCEPT ![p] = [u EXCEPT !.result = UpRet("error", "File not found")]]
               /\ pc' = [pc EXCEPT ![p] = "up_done"]
               /\ UNCHANGED <<disk, tmp_count>>
          ELSE LET u1 == [u EXCEPT !.file_size = getsize(path), !.file_ext = splitext(path)]
               IN IF ~TooLarge(u1.file_size, type_)
                  THEN /\ ResumeUpload(p, disk, u1, path, type_)
                       /\ UNCHANGED tmp_count
                  ELSE IF ~tmp_ok
                  THEN /\ ResumeUpload(p, disk, u1, path, type_)
                       /\ UNCHANGED tmp_count
                  ELSE LET temp == TempPath(tmp_count + 1, u1.file_ext)
                           u2 == [u1 EXCEPT !.temp_path = temp, !.ix = 1]
                       IN /\ tmp_count' = tmp_count + 1
                          /\ disk' = WriteFile(disk, temp, 0)
                          /\ up' = [up EXCEPT ![p] =
                                [u2 EXCEPT !.attempts = <<IF type_ = "audio" THEN audio_bitrates[1]
                                                                          ELSE "webm">>]]
                          /\ pc' = [pc EXCEPT ![p] = IF type_ = "audio" THEN "cp_audio"
                                                                       ELSE "cp_webm"]

\* lines 293-296 / 310-313: one compress_audio or compress_video run is over.
compress_done(p, o, bitrates) ==
    /\ LET u == up[p]
           d == IF o.wrote = -1 THEN disk ELSE WriteFile(disk, u.temp_path, o.wrote)
           success == o.rc0 /\ u.temp_path \in DOMAIN d
       IN IF GoodEnough(d, u.temp_path, success, media_type[p]) \/ u.ix = Len(bitrates)
          THEN PlannerEnd(p, d, u, success)
          ELSE /\ disk' = d
               /\ up' = [up EXCEPT ![p] = [u EXCEPT !.success = success, !.ix = u.ix + 1,
                                                    !.attempts = Append(@, bitrates[u.ix + 1])]]
               /\ pc' = pc
    /\ UNCHANGED <<entry, video_id, media_type, tmp_count, upFrame>>

compress_audio_done(p, o) ==
    /\ pc[p] = "cp_audio"
    /\ compress_done(p, o, audio_bitrates)

compress_video_done(p, o) ==
    /\ pc[p] = "cp_video"
    /\ compress_done(p, o, video_bitrates)

\* lines 300-309: convert_to_webm is over.
convert_to_webm_done(p, o) ==
    /\ pc[p] = "cp_webm"
    /\ LET u == up[p]
           webm_path == WebmPath(u.temp_path)
           d == IF o.wrote = -1 THEN disk ELSE WriteFile(disk, webm_path, o.wrote)
           converted == o.rc0 /\ webm_path \in DOMAIN d
           fits == converted /\ d[webm_path] <= file_limit(media_type[p])
           d2 == IF fits THEN RemoveFile(WriteFile(d, u.temp_path, d[webm_path]), webm_path)
                 ELSE IF converted THEN RemoveFile(d, webm_path)
                 ELSE d
       IN IF fits
          THEN PlannerEnd(p, d2, u, TRUE)
          ELSE /\ disk' = d2
               /\ up' = [up EXCEPT ![p] = [u EXCEPT !.success = FALSE, !.ix = 1,
                                                    !.attempts = Append(@, video_bitrates[1])]]
               /\ pc' = [pc EXCEPT ![p] = "cp_video"]
    /\ UNCHANGED <<entry, video_id, media_type, tmp_count, upFrame>>

\* What the destination may answer to session.post.
PostOutcomes == {"200_ok", "200_not_ok", "200_malformed", "413", "500", "timeout", "exception"}

\* lines 236 and 255: "if compressed_path and compressed_path != file_path".
CleanupUnguarded(u) == u.compressed_path # NoPath
CleanupDue(u) == u.compressed_path # NoPath /\ u.compressed_path # u.file_path
Cleanup(d, u) ==
    IF CleanupDue(u) /\ u.compressed_path \in DOMAIN d THEN RemoveFile(d, u.compressed_path) ELSE d

\* lines 229-273: the result of upload_file, from the answer to session.post.
UploadResultByStatus(u, r) ==
    IF r \in {"200_ok", "200_not_ok"}
    THEN [status |-> "success", message |-> "", file_size |-> u.file_size,
          compressed |-> IF u.compressed_path # NoPath
                         THEN u.compressed_path # u.file_path ELSE FALSE]
    ELSE IF r = "413" THEN UpRet("error", "File too large even after compression")
    ELSE IF r = "500" THEN UpRet("error", "Upload failed: 500")
    ELSE IF r = "timeout" THEN UpRet("error", "Upload timeout")
    ELSE UpRet("error", "Upload error")
UploadResult(u, r) ==
    CASE r = "200_ok" ->
            [status |-> "success", message |-> "", file_size |-> u.file_size,
             compressed |-> IF u.compressed_path # NoPath
                            THEN u.compressed_path # u.file_path ELSE FALSE]
      [] r = "200_not_ok" -> UpRet("error", "Upload failed")
      [] r = "200_malformed" -> UpRet("error", "Upload error")
      [] r = "413" -> UpRet("error", "File too large even after compression")
      [] r = "500" -> UpRet("error", "Upload failed: 500")
      [] r = "timeout" -> UpRet("error", "Upload timeout")
      [] OTHER -> UpRet("error", "Upload error")

\* lines 224-273: session.post is over.
upload_posted(p, r) ==
    /\ pc[p] = "up_post"
    /\ disk' = IF r \in {"200_ok", "413", "500"} THEN Cleanup(disk, up[p]) ELSE disk
    /\ up' = [up EXCEPT ![p] = [@ EXCEPT !.posted = r, !.result = UploadResult(up[p], r)]]
    /\ pc' = [pc EXCEPT ![p] = "up_done"]
    /\ UNCHANGED <<entry, video_id, media_type, tmp_count, upFrame>>

(***************************************************************************)
(* src/main.py: TelegramDBManager                                          *)
(***************************************************************************)
CACHE_TTL == 3600
max_searches == 500
limit == 100

\* Captions (or texts) of the channel's messages, and the substring test
\* "video_id in caption" on them.
Contains(caption, vid) ==
    \/ caption = "Video ID: abc123" /\ vid \in {"abc123", "abc"}
    \/ caption = "Video ID: abc" /\ vid = "abc"

Msg(id, caption, has, mime, name_ext) ==
    [message_id |-> id, caption |-> caption, has |-> has, mime |-> mime, ext |-> name_ext]
\* The messages the channel history may hold (message_id is unique in a channel).
Messages ==
    { Msg(1, "Video ID: abc123", "audio", "audio/mpeg", ".mp3"),
      Msg(2, "Video ID: abc123", "document", "application/octet-stream", ".bin"),
      Msg(3, "Video ID: abc", "video", "video/mp4", ".mp4"),
      Msg(4, "Video ID: abc123", "document", "application/octet-stream", ".mp4"),
      Msg(5, "hello", "audio", "audio/mpeg", ".mp3"),
      Msg(6, "Video ID: abc", "none", "", "") }

FileInfo(m, kind) ==
    [tag |-> "file_info", file_id |-> m.message_id, message_id |-> m.message_id,
     media_type |-> kind]

\* lines 466-524: _extract_file_info.
extract_file_info(m) ==
    IF m.has = "audio" THEN FileInfo(m, "audio")
    ELSE IF m.has = "document"
    THEN IF m.mime \in {"audio/mpeg"} \/ m.ext \in {".webm", ".mp3"} THEN FileInfo(m, "audio")
         ELSE IF m.mime \in {"video/mp4"} \/ m.ext \in {".mp4", ".mkv"} THEN FileInfo(m, "video")
         ELSE None
    ELSE IF m.has = "video" THEN FileInfo(m, "video")
    ELSE None

\* lines 404-410 and 448-453: the first message of the page whose caption
\* contains video_id and that yields a file_info; None if there is none.
RECURSIVE scanAnyMatch(_, _)
scanAnyMatch(messages, vid) ==
    IF messages = <<>> THEN None
    ELSE IF Contains(Head(messages).caption, vid)
    THEN extract_file_info(Head(messages))
    ELSE scanAnyMatch(Tail(messages), vid)

RECURSIVE scan(_, _)
scan(messages, vid) ==
    IF messages = <<>> THEN None
    ELSE IF Contains(Head(messages).caption, vid) /\ extract_file_info(Head(messages)) # None
    THEN extract_file_info(Head(messages))
    ELSE scan(Tail(messages), vid)

\* How many messages an answer of getChatHistory holds at most in the model.
PageLen == 2
Pages == UNION {[1..n -> Messages] : n \in 0..PageLen}
\* What the backend may answer to one getChatHistory request.
Responses ==
    {[kind |-> k, result |-> <<>>] : k \in {"exception", "status", "not_ok"}}
        \cup {[kind |-> "ok", result |-> pg] : pg \in Pages}

NoSr ==
    [offset_id |-> 0, page |-> 0, result |-> None, done |-> FALSE, source |-> "",
     fetches |-> 0, had |-> None, t_call |-> 0, last_seen |-> 0,
     failed_at |-> 0,     \* history: the number of the first page fetch that failed
     last_len |-> -1,     \* history: the number of messages of the page answered last
     first_match |-> None, \* history: the first classifiable match of that page
     skipped |-> FALSE]   \* history: a match that cannot be classified was passed over

\* A page fetch that failed: it raised, or it was answered with a status other
\* than 200, or with ok = false.
FetchFailed(resp) == resp.kind \in {"exception", "status", "not_ok"}
Matching(messages, vid) ==
    {i \in DOMAIN messages : /\ Contains(messages[i].caption, vid)
                             /\ extract_file_info(messages[i]) # None}
FirstMatch(messages, vid) ==
    IF Matching(messages, vid) = {} THEN None
    ELSE extract_file_info(messages[CHOOSE i \in Matching(messages, vid) :
                                        \A j \in Matching(messages, vid) : i <= j])
\* The matching messages of a page that yield no file_info and come before
\* its first classifiable match.
PassedOver(messages, vid) ==
    {i \in DOMAIN messages :
        /\ Contains(messages[i].caption, vid)
        /\ extract_file_info(messages[i]) = None
        /\ \A j \in Matching(messages, vid) : i < j}
NoteFetch(s, resp, vid) ==
    [s EXCEPT !.failed_at = IF @ = 0 /\ FetchFailed(resp) THEN s.fetches ELSE @,
              !.last_len = IF resp.kind = "ok" THEN Len(resp.result) ELSE -1,
              !.first_match = IF resp.kind = "ok" THEN FirstMatch(resp.result, vid)
                              ELSE None,
              !.skipped = @ \/ (resp.kind = "ok" /\ PassedOver(resp.result, vid) # {})]

\* line 459: the cursor of the next page.
NextOffsetFirst(messages) == messages[1].message_id
NextOffset(messages) == messages[Len(messages)].message_id

\* line 386
CacheFreshInclusive(e, t) == (t - e.timestamp) <= CACHE_TTL
CacheFresh(e, t) == (t - e.timestamp) < CACHE_TTL

\* lines 409 and 415: self.channel_cache[video_id] = (file_info, time.time())
CachePutUnstamped(cache, vid, info, t) ==
    [v \in DOMAIN cache \cup {vid} |->
        IF v = vid THEN [info |-> info, timestamp |-> 0] ELSE cache[v]]
CachePut(cache, vid, info, t) ==
    [v \in DOMAIN cache \cup {vid} |->
        IF v = vid THEN [info |-> info, timestamp |-> t] ELSE cache[v]]

\* search_in_db_channel returns.
FinishSearch(p, s, info, source) ==
    /\ sr' = [sr EXCEPT ![p] = [s EXCEPT !.result = info, !.done = TRUE, !.source = source]]
    /\ pc' = [pc EXCEPT ![p] = "sr_done"]

\* lines 382-400: search_in_db_channel(video_id) up to its first await.
search_in_db_channel(p, vid) ==
    /\ video_id' = [video_id EXCEPT ![p] = vid]
    /\ LET s == [NoSr EXCEPT !.t_call = now,
                             !.had = IF vid \in DOMAIN channel_cache
                                     THEN channel_cache[vid] ELSE None]
       IN IF vid \in DOMAIN channel_cache /\ CacheFresh(channel_cache[vid], now)
          THEN FinishSearch(p, s, channel_cache[vid].info, "cache")
          ELSE /\ sr' = [sr EXCEPT ![p] = [s EXCEPT !.fetches = 1]]
               /\ pc' = [pc EXCEPT ![p] = "sr_shallow"]
    /\ UNCHANGED channel_cache

\* lines 400-422: the first page has been answered.
search_shallow_done(p, resp) ==
    /\ pc[p] = "sr_shallow"
    /\ LET s == NoteFetch(sr[p], resp, video_id[p])
           vid == video_id[p]
           found == IF resp.kind = "ok" THEN scan(resp.result, vid) ELSE None
       IN IF resp.kind = "exception"
          THEN FinishSearch(p, s, None, "") /\ UNCHANGED channel_cache
          ELSE IF found # None
          THEN /\ channel_cache' = CachePut(channel_cache, vid, found, now)
               /\ FinishSearch(p, s, found, "shallow")
          ELSE \* line 413: _deep_search_channel, lines 426-439
               /\ sr' = [sr EXCEPT ![p] = [s EXCEPT !.offset_id = 0, !.page = 1,
                                                    !.fetches = s.fetches + 1]]
               /\ pc' = [pc EXCEPT ![p] = "sr_deep"]
               /\ UNCHANGED channel_cache
    /\ UNCHANGED <<entry, video_id, media_type, srFrame>>

\* lines 439-464, 414-418: a page of the deep search has been answered.
search_deep_done(p, resp) ==
    /\ pc[p] = "sr_deep"
    /\ LET s == NoteFetch(sr[p], resp, video_id[p])
           vid == video_id[p]
           messages == resp.result
           found == IF resp.kind = "ok" THEN scan(messages, vid) ELSE None
       IN IF resp.kind # "ok" \/ messages = <<>>
          THEN FinishSearch(p, s, None, "") /\ UNCHANGED channel_cache
          ELSE IF found # None
          THEN /\ channel_cache' = CachePut(channel_cache, vid, found, now)
               /\ FinishSearch(p, s, found, "deep")
          ELSE IF s.page < max_searches \div 100
          THEN /\ sr' = [sr EXCEPT ![p] =
                            [s EXCEPT !.offset_id = NextOffset(messages),
                                      !.last_seen = messages[Len(messages)].message_id,
                                      !.page = s.page + 1,
                                      !.fetches = s.fetches + 1]]
               /\ pc' = pc
               /\ UNCHANGED channel_cache
          ELSE FinishSearch(p, s, None, "") /\ UNCHANGED channel_cache
    /\ UNCHANGED <<entry, video_id, media_type, srFrame>>

\* lines 959-965: POST /db/refresh_cache.
refresh_db_cache ==
    /\ telegram_configured
    /\ channel_cache # <<>>
    /\ channel_cache' = <<>>
    /\ UNCHANGED <<sr, procVars, srFrame>>

\* Time passes.
TickSteps == {1799, 1801}
MaxTime == 3700
Tick(d) ==
    /\ now + d <= MaxTime
    /\ now' = now + d
    /\ UNCHANGED <<disk, procVars, dlVars, upVars, srVars, orVars>>

(***************************************************************************)
(* src/main.py: LocalDownloadManager, DownloadManager, /song and /video    *)
(***************************************************************************)
Endpoints == {"song", "video", "download_endpoint"}
\* The routes that schedule upload_to_telegram_background.
Relayers == Endpoints \cup {"upload_file_directly"}
\* line 18: main.py imports utils.downloader itself, so the import of line 549
\* has succeeded in every service that runs.
downloader_available == TRUE

LocalResult(status, message, path) ==
    [status |-> status, message |-> message, file_path |-> path]
NoLocal == LocalResult("", "", NoPath)

NoLink == [base |-> "", id |-> ""]
\* line 723: _make_full_link(request, "/file", video_id)
LocalLink(vid) == [base |-> "/file", id |-> vid]
\* line 538: the URL built from the getFile answer for file_id
RemoteLink(file_id) == [base |-> "https://api.telegram.org/file", id |-> file_id]

DownloadInfo(status, type, link, path, source, message) ==
    [status |-> status, type |-> type, link |-> link, file_path |-> path,
     source |-> source, message |-> message]
NoInfo == DownloadInfo("", "", NoLink, NoPath, "", "")
\* lines 619-626, 635-642 and 645-648: the three values download_media returns.
LocalSuccess(vid, path) ==
    DownloadInfo("success", "local_file", LocalLink(vid), path, "local_downloader", "")
RemoteSuccess(file_url) ==
    DownloadInfo("success", "db_channel", file_url, NoPath, "telegram_db", "")
BothFailed(local_result) ==
    DownloadInfo("error", "", NoLink, NoPath, "", local_result.message)

Response(code, status, link, source, background_upload, message) ==
    [code |-> code, status |-> status, link |-> link, source |-> source,
     background_upload |-> background_upload, message |-> message]
NoResponse == Response(0, "", NoLink, "", FALSE, "")

NoRq ==
    [endpoint |-> "", api |-> "", upload |-> FALSE, local_result |-> NoLocal, db_file |-> None, file_url |-> None,
     download_info |-> NoInfo, response |-> NoResponse, scheduled |-> FALSE,
     relay_path |-> NoPath,
     upload_result |-> UpRet("", ""),
     calls |-> <<>>,      \* history: the collaborators download_media invoked, in order
     writes |-> <<>>,     \* history: the statuses the relay of the request wrote, in order
     attempts |-> <<>>]   \* history: the transcode attempts of that relay, in order

\* str(e) of what download() raises (downloader.py lines 58 and 77).
ExcText(tag) == IF tag = "ValueError" THEN "Invalid type" ELSE "attempts failed"

\* lines 573-587: what LocalDownloadManager.download_media makes of the
\* return value or the exception of download().
LocalOutcome(ret, d) ==
    IF ret.tag = "path"
    THEN IF ret.path # NoPath /\ ret.path \in DOMAIN d
         THEN LocalResult("success", "", ret.path)
         ELSE LocalResult("error", "Local download failed - file not found", NoPath)
    ELSE LocalResult("error", "Local download error: " \o ExcText(ret.tag), NoPath)

\* line 610
PrimaryIgnored(local_result) == FALSE
PrimaryOk(local_result) == local_result["status"] = "success"
\* line 634
ResolvedAlways(file_url) == TRUE
Resolved(file_url) == file_url # None

\* download()'s locals are gone once it has returned.
ForgetDownload(p) ==
    /\ fetched_ok' = IF dl_result[p].tag = "path"
                     THEN fetched_ok \cup {<<video_id[p], media_type[p]>>}
                     ELSE fetched_ok
    /\ attempt_no' = [attempt_no EXCEPT ![p] = 0]
    /\ retry_no' = [retry_no EXCEPT ![p] = 0]
    /\ delay' = [delay EXCEPT ![p] = 0]
    /\ dl_result' = [dl_result EXCEPT ![p] = NoRet]
    /\ dl_last' = [dl_last EXCEPT ![p] = NoOutcome]
    /\ dl_tiers' = [dl_tiers EXCEPT ![p] = <<>>]
    /\ dl_waits' = [dl_waits EXCEPT ![p] = <<>>]
    /\ dl_existed' = [dl_existed EXCEPT ![p] = FALSE]

\* How many requests the service accepts in one run of the model.
MaxRequests == 2

\* line 25: API_KEY = os.getenv("API_KEY", "Shadow")
API_KEY == "Shadow"
ApiKeys == {API_KEY, "wrong"}
\* lines 711-718: the dependency of every gated route; it raises 403 when the
\* test fails, and the handler is not called.
KeyIgnored(api) == TRUE
verify_api_key(api) == api = API_KEY
Forbidden == Response(403, "", NoLink, "", FALSE, "Invalid API Key")

\* A request of p on the route endpoint that is answered before any await.
Answer(p, endpoint, api, response) ==
    /\ requests < MaxRequests
    /\ requests' = requests + 1
    /\ entry' = [entry EXCEPT ![p] = "answered"]
    /\ rq' = [rq EXCEPT ![p] = [NoRq EXCEPT !.endpoint = endpoint, !.api = api,
                                            !.response = response]]
    /\ pc' = [pc EXCEPT ![p] = "responded"]
\* What a request that starts or ends nothing leaves alone.
Untouched ==
    <<disk, video_id, media_type, dlVars, upVars, srVars, now, background_upload_tasks,
      telegram_configured>>
\* The route is gated: a wrong key is answered with 403 by the dependency.
Reject(p, endpoint, api) ==
    /\ ~verify_api_key(api)
    /\ Answer(p, endpoint, api, Forbidden)
    /\ UNCHANGED Untouched

\* lines 740-742 / 781-783, 602-608, 566-573: the handler of /song or /video
\* up to the first await of download().
handle(p, endpoint, type_, vid, upload, api) ==
    /\ requests < MaxRequests
    /\ downloader_available
    /\ requests' = requests + 1
    /\ entry' = [entry EXCEPT ![p] = endpoint]
    /\ rq' = [rq EXCEPT ![p] = [NoRq EXCEPT !.endpoint = endpoint, !.api = api,
                                            !.upload = upload, !.calls = <<"primary">>]]
    /\ download(p, vid, type_)
    /\ UNCHANGED <<disk, upVars, srVars, now, background_upload_tasks, telegram_configured>>

song(p, vid, upload, api) ==
    /\ pc[p] = "idle"
    /\ \/ verify_api_key(api) /\ handle(p, "song", "audio", vid, upload, api)
       \/ Reject(p, "song", api)
video(p, vid, upload, api) ==
    /\ pc[p] = "idle"
    /\ \/ verify_api_key(api) /\ handle(p, "video", "video", vid, upload, api)
       \/ Reject(p, "video", api)

\* A url is what stands before the identifier, the identifier and what
\* follows it; lines 862-871 cut the identifier out of each of the forms
\* below ('v=', 'youtu.be/', a bare identifier; '&' and '?' end it).
Url(head, id, tail) == [head |-> head, id |-> id, tail |-> tail]
Urls ==
    {Url("", "abc123", ""), Url("https://www.youtube.com/watch?v=", "abc123", "&t=1"),
     Url("https://youtu.be/", "abc123", "?si=x"), Url("", "ab", "")}
ExtractId(url) == url.id
BadRequest(message) == Response(400, "error", NoLink, "", FALSE, message)

\* lines 849-888: GET /download up to the first await of download().
download_endpoint(p, url, type_, upload, api) ==
    /\ pc[p] = "idle"
    /\ \/ Reject(p, "download_endpoint", api)
       \/ /\ verify_api_key(api)
          /\ LET vid == ExtractId(url)
             IN IF vid = "" \/ Len(vid) < 3
                THEN /\ Answer(p, "download_endpoint", api, BadRequest("Invalid video ID"))
                     /\ UNCHANGED Untouched
                ELSE IF type_ \notin {"audio", "video"}
                THEN /\ Answer(p, "download_endpoint", api,
                               BadRequest("Type must be 'audio' or 'video'"))
                     /\ UNCHANGED Untouched
                ELSE handle(p, "download_endpoint", type_, vid, upload, api)

\* lines 573-587 and 608-631: download() has returned or raised;
\* LocalDownloadManager wraps the outcome and DownloadManager.download_media
\* runs on to its return or into search_in_db_channel.
local_download_done(p) ==
    /\ pc[p] = "dl_done"
    /\ entry[p] \in Endpoints
    /\ LET local_result == LocalOutcome(dl_result[p], disk)
           r == [rq[p] EXCEPT !.local_result = local_result]
       IN IF PrimaryOk(local_result)
          THEN /\ rq' = [rq EXCEPT ![p] =
                           [r EXCEPT !.download_info =
                                LocalSuccess(video_id[p], local_result["file_path"])]]
               /\ pc' = [pc EXCEPT ![p] = "dm_done"]
               /\ UNCHANGED <<video_id, srVars>>
          ELSE IF telegram_configured
          THEN /\ rq' = [rq EXCEPT ![p] = [r EXCEPT !.calls = Append(@, "secondary")]]
               /\ search_in_db_channel(p, video_id[p])
          ELSE /\ rq' = [rq EXCEPT ![p] = [r EXCEPT !.download_info = BothFailed(local_result)]]
               /\ pc' = [pc EXCEPT ![p] = "dm_done"]
               /\ UNCHANGED <<video_id, srVars>>
    /\ ForgetDownload(p)
    /\ UNCHANGED <<disk, entry, media_type, upVars, now, background_upload_tasks,
                   telegram_configured, requests>>

\* line 632: 'if db_file:', with the requested kind in scope and not looked at.
FoundOfKind(db_file, type_) == db_file # None /\ db_file.media_type = type_
Found(db_file, type_) == db_file # None

\* lines 631-633 and 645-648: search_in_db_channel has returned.
secondary_search_done(p) ==
    /\ pc[p] = "sr_done"
    /\ entry[p] \in Endpoints
    /\ LET db_file == sr[p].result
           r == [rq[p] EXCEPT !.db_file = db_file]
       IN IF Found(db_file, media_type[p])
          THEN /\ rq' = [rq EXCEPT ![p] = [r EXCEPT !.calls = Append(@, "resolve")]]
               /\ pc' = [pc EXCEPT ![p] = "dm_url"]
          ELSE /\ rq' = [rq EXCEPT ![p] =
                           [r EXCEPT !.download_info = BothFailed(r.local_result)]]
               /\ pc' = [pc EXCEPT ![p] = "dm_done"]
    /\ sr' = [sr EXCEPT ![p] = NoSr]
    /\ UNCHANGED <<disk, entry, video_id, media_type, dlVars, upVars, channel_cache, now,
                   background_upload_tasks, telegram_configured, requests>>

\* What the backend may answer to getFile.
UrlAnswers == {"200_ok", "200_not_ok", "200_malformed", "500", "exception"}

\* lines 526-542 and 633-648: getFile has been answered.
get_file_download_url_done(p, answer) ==
    /\ pc[p] = "dm_url"
    /\ LET file_url == IF answer = "200_ok" THEN RemoteLink(rq[p].db_file["file_id"])
                       ELSE None
       IN rq' = [rq EXCEPT ![p] =
                    [@ EXCEPT !.file_url = file_url,
                              !.download_info =
                        IF Resolved(file_url) THEN RemoteSuccess(file_url)
                        ELSE BothFailed(rq[p].local_result)]]
    /\ pc' = [pc EXCEPT ![p] = "dm_done"]
    /\ UNCHANGED <<disk, entry, video_id, media_type, dlVars, upVars, srVars, now,
                   background_upload_tasks, telegram_configured, requests>>

\* lines 754 / 795: is the background relay scheduled?
ScheduledAnySource(upload, download_info) == upload
Scheduled(upload, download_info) ==
    /\ upload
    /\ download_info.source = "local_downloader"
    /\ download_info.file_path # NoPath

\* lines 744-767 / 785-808: the handler answers from download_info.
respond(p) ==
    /\ pc[p] = "dm_done"
    /\ LET info == rq[p].download_info
           sched == info.status = "success" /\ Scheduled(rq[p].upload, info)
       IN rq' = [rq EXCEPT ![p] =
                    [@ EXCEPT !.scheduled = sched,
                              !.relay_path = IF sched THEN info.file_path ELSE NoPath,
                              !.response =
                                 IF entry[p] = "download_endpoint"
                                 THEN \* line 903: JSONResponse(download_info)
                                      Response(200, info.status, info.link, info.source, sched,
                                               info.message)
                                 ELSE IF info.status = "success"
                                 THEN Response(200, "done", info.link, info.source, sched, "")
                                 ELSE Response(500, "error", NoLink, "", FALSE, info.message)]]
    /\ pc' = [pc EXCEPT ![p] = "responded"]
    /\ UNCHANGED <<disk, entry, video_id, media_type, dlVars, upVars, srVars, now,
                   background_upload_tasks, telegram_configured, requests>>

\* line 660
task_id(vid, type_) == <<vid, type_>>
TaskEntry(status, result, t) == [status |-> status, result |-> result, time |-> t]
TaskPutFirst(tasks, id, e) ==
    [k \in DOMAIN tasks \cup {id} |-> IF k \in DOMAIN tasks THEN tasks[k] ELSE e]
TaskPut(tasks, id, e) == [k \in DOMAIN tasks \cup {id} |-> IF k = id THEN e ELSE tasks[k]]

\* lines 755-758 / 796-799 / 896-899 / 989-992: a task handed to
\* background_tasks.add_task runs once the response has been sent.
TaskDueEarly(p) == pc[p] = "dm_done" /\ rq[p].upload
TaskDue(p) == pc[p] = "responded" /\ rq[p].scheduled

\* lines 650-666: the background task of the request starts, after the
\* response; it runs to the first await of upload_file.
upload_to_telegram_background(p, tmp_ok) ==
    /\ TaskDue(p)
    /\ IF ~telegram_configured
       THEN /\ pc' = [pc EXCEPT ![p] = "bg_done"]
            /\ UNCHANGED <<disk, video_id, media_type, upVars, background_upload_tasks, rq>>
       ELSE /\ background_upload_tasks' =
                  TaskPut(background_upload_tasks, task_id(video_id[p], media_type[p]),
                          TaskEntry("uploading", UpRet("", ""), now))
            /\ rq' = [rq EXCEPT ![p] = [@ EXCEPT !.writes = Append(@, "uploading")]]
            /\ upload_file(p, rq[p].relay_path, video_id[p], media_type[p], tmp_ok)
    /\ UNCHANGED <<entry, dlVars, srVars, now, telegram_configured, requests>>

\* lines 669-681: the status the relay records for upload_result.
StatusStuck(upload_result) == "uploading"
StatusCompleted(upload_result) == "completed"
FinalStatus(upload_result) ==
    IF upload_result["status"] = "success" THEN "completed" ELSE "failed"

\* lines 668-682: upload_file has returned.
relay_done(p) ==
    /\ pc[p] = "up_done"
    /\ entry[p] \in Relayers
    /\ LET upload_result == up[p].result
           status == FinalStatus(upload_result)
       IN /\ background_upload_tasks' =
                TaskPut(background_upload_tasks, task_id(video_id[p], media_type[p]),
                        TaskEntry(status, upload_result, now))
          /\ rq' = [rq EXCEPT ![p] = [@ EXCEPT !.writes = Append(@, status),
                                               !.upload_result = upload_result,
                                               !.attempts = up[p].attempts]]
    /\ pc' = [pc EXCEPT ![p] = "bg_done"]
    /\ up' = [up EXCEPT ![p] = NoUp]
    /\ UNCHANGED <<disk, entry, video_id, media_type, dlVars, tmp_count, srVars, now,
                   telegram_configured, requests>>

\* lines 968-990: POST /upload/{video_id} up to the first await of download().
upload_file_directly(p, vid, type_, api) ==
    /\ pc[p] = "idle"
    /\ \/ Reject(p, "upload_file_directly", api)
       \/ /\ verify_api_key(api)
          /\ IF ~telegram_configured
             THEN /\ Answer(p, "upload_file_directly", api,
                            BadRequest("Upload channel not configured"))
                  /\ UNCHANGED Untouched
             ELSE /\ requests < MaxRequests
                  /\ downloader_available
                  /\ requests' = requests + 1
                  /\ entry' = [entry EXCEPT ![p] = "upload_file_directly"]
                  /\ rq' = [rq EXCEPT ![p] =
                               [NoRq EXCEPT !.endpoint = "upload_file_directly", !.api = api]]
                  /\ download(p, vid, type_)
                  /\ UNCHANGED <<disk, upVars, srVars, now, background_upload_tasks,
                                 telegram_configured>>

\* lines 980-1003: download() has returned or raised; the manual relay is
\* scheduled or the request is refused.
upload_file_directly_done(p) ==
    /\ pc[p] = "dl_done"
    /\ entry[p] = "upload_file_directly"
    /\ LET local_result == LocalOutcome(dl_result[p], disk)
           ok == local_result["status"] = "success"
       IN rq' = [rq EXCEPT ![p] =
                    [@ EXCEPT !.local_result = local_result,
                              !.scheduled = ok,
                              !.relay_path = local_result["file_path"],
                              !.response =
                                 IF ok
                                 THEN Response(200, "upload_started", NoLink, "", TRUE,
                                               "Background upload started")
                                 ELSE BadRequest("Download failed before upload")]]
    /\ pc' = [pc EXCEPT ![p] = "responded"]
    /\ ForgetDownload(p)
    /\ UNCHANGED <<disk, entry, video_id, media_type, upVars, srVars, now,
                   background_upload_tasks, telegram_configured, requests>>

\* lines 932-946: GET /upload/status/{task_id}.
get_upload_status(p, id, api) ==
    /\ pc[p] = "idle"
    /\ \/ Reject(p, "get_upload_status", api)
       \/ /\ verify_api_key(api)
          /\ Answer(p, "get_upload_status", api,
                    IF id \in DOMAIN background_upload_tasks
                    THEN Response(200, background_upload_tasks[id].status, NoLink, "", FALSE, "")
                    ELSE Response(200, "not_found", NoLink, "", FALSE, "Task ID not found"))
          /\ UNCHANGED Untouched

\* lines 949-954: GET /db/search/{video_id} up to the first await of the search.
search_db_channel(p, vid, api) ==
    /\ pc[p] = "idle"
    /\ \/ Reject(p, "search_db_channel", api)
       \/ /\ verify_api_key(api)
          /\ IF ~telegram_configured
             THEN /\ Answer(p, "search_db_channel", api,
                            BadRequest("Database channel not configured"))
                  /\ UNCHANGED Untouched
             ELSE /\ requests < MaxRequests
                  /\ requests' = requests + 1
                  /\ entry' = [entry EXCEPT ![p] = "search_db_channel"]
                  /\ rq' = [rq EXCEPT ![p] =
                               [NoRq EXCEPT !.endpoint = "search_db_channel", !.api = api]]
                  /\ search_in_db_channel(p, vid)
                  /\ UNCHANGED <<disk, media_type, dlVars, upVars, now,
                                 background_upload_tasks, telegram_configured>>

\* lines 954-957: the search has returned.
search_db_channel_done(p) ==
    /\ pc[p] = "sr_done"
    /\ entry[p] = "search_db_channel"
    /\ rq' = [rq EXCEPT ![p] =
                 [@ EXCEPT !.db_file = sr[p].result,
                           !.response = Response(200, IF sr[p].result # None THEN "found"
                                                      ELSE "not_found", NoLink, "", FALSE, "")]]
    /\ pc' = [pc EXCEPT ![p] = "responded"]
    /\ sr' = [sr EXCEPT ![p] = NoSr]
    /\ UNCHANGED <<disk, entry, video_id, media_type, dlVars, upVars, channel_cache, now,
                   background_upload_tasks, telegram_configured, requests>>

\* lines 959-965: POST /db/refresh_cache, with its gate and its answer.
refresh_db_cache_request(p, api) ==
    /\ pc[p] = "idle"
    /\ \/ Reject(p, "refresh_db_cache", api)
       \/ /\ verify_api_key(api)
          /\ Answer(p, "refresh_db_cache", api,
                    IF telegram_configured
                    THEN Response(200, "success", NoLink, "", FALSE, "DB cache cleared")
                    ELSE Response(200, "error", NoLink, "", FALSE, "DB channel not configured"))
          /\ channel_cache' = IF telegram_configured THEN <<>> ELSE channel_cache
          /\ UNCHANGED <<disk, video_id, media_type, dlVars, upVars, sr, now,
                         background_upload_tasks, telegram_configured>>

\* The request and its background task are over.
request_end(p) ==
    /\ \/ pc[p] = "bg_done"
       \/ pc[p] = "responded" /\ ~rq[p].scheduled
    /\ pc' = [pc EXCEPT ![p] = "idle"]
    /\ entry' = [entry EXCEPT ![p] = "none"]
    /\ rq' = [rq EXCEPT ![p] = NoRq]
    /\ video_id' = [video_id EXCEPT ![p] = ""]
    /\ media_type' = [media_type EXCEPT ![p] = ""]
    /\ UNCHANGED <<disk, dlVars, upVars, srVars, now,
                   background_upload_tasks, telegram_configured, requests>>

(***************************************************************************)
(* The engine called on its own: one caller, one call after the other.     *)
(***************************************************************************)
CallDownload(p, vid, type_) ==
    /\ pc[p] = "idle"
    /\ entry' = [entry EXCEPT ![p] = "download"]
    /\ download(p, vid, type_)
    /\ UNCHANGED <<disk, dlFrame>>

ReturnDownload(p) ==
    /\ pc[p] = "dl_done"
    /\ entry[p] = "download"
    /\ pc' = [pc EXCEPT ![p] = "idle"]
    /\ entry' = [entry EXCEPT ![p] = "none"]
    /\ ForgetDownload(p)
    /\ UNCHANGED <<disk, video_id, media_type, dlFrame>>

\* Files a previous run of the service may have left in the download folder.
InitDisks(vids, sizes) ==
    UNION {[S -> sizes] : S \in SUBSET {file_path(v, t) : v \in vids, t \in Kinds}}

InitProcs ==
    /\ pc = [p \in Procs |-> "idle"]
    /\ entry = [p \in Procs |-> "none"]
    /\ video_id = [p \in Procs |-> ""]
    /\ media_type = [p \in Procs |-> ""]

InitDl ==
    /\ attempt_no = [p \in Procs |-> 0]
    /\ retry_no = [p \in Procs |-> 0]
    /\ delay = [p \in Procs |-> 0]
    /\ dl_result = [p \in Procs |-> NoRet]
    /\ dl_last = [p \in Procs |-> NoOutcome]
    /\ dl_tiers = [p \in Procs |-> <<>>]
    /\ dl_waits = [p \in Procs |-> <<>>]
    /\ dl_existed = [p \in Procs |-> FALSE]
    /\ fetched_ok = {}

InitUp ==
    /\ up = [p \in Procs |-> NoUp]
    /\ tmp_count = 0

InitSr ==
    /\ channel_cache = <<>>
    /\ sr = [p \in Procs |-> NoSr]
    /\ now = 0

\* line 28: TELEGRAM_BOT_TOKEN has a non-empty default, so lines 592-593 build
\* telegram_db and telegram_uploader.
InitOr ==
    /\ background_upload_tasks = <<>>
    /\ telegram_configured = TRUE
    /\ rq = [p \in Procs |-> NoRq]
    /\ requests = 0

InitDownload ==
    /\ disk \in InitDisks(DlVids, DlSizes)
    /\ InitProcs
    /\ InitDl
    /\ InitUp
    /\ InitSr
    /\ InitOr

NextDownload ==
    \/ \E vid \in DlVids, type_ \in Types : CallDownload("p1", vid, type_)
    \/ download_wake("p1")
    \/ \E o \in DlOutcomes : download_fetched("p1", o)
    \/ ReturnDownload("p1")

SpecDownload == InitDownload /\ [][NextDownload]_vars

(***************************************************************************)
(* upload_file called on its own: one relay after the other.               *)
(***************************************************************************)
\* How many temp files the relays of one run may create.
MaxTmp == 2
UpVids == {"big999"}
UpSizes == {TELEGRAM_FILE_LIMIT, TELEGRAM_FILE_LIMIT + 1, 120 * MB}

CallUpload(p, vid, type_, tmp_ok) ==
    /\ pc[p] = "idle"
    /\ tmp_count < MaxTmp
    /\ entry' = [entry EXCEPT ![p] = "upload_file"]
    /\ upload_file(p, file_path(vid, type_), vid, type_, tmp_ok)
    /\ UNCHANGED upFrame

ReturnUpload(p) ==
    /\ pc[p] = "up_done"
    /\ entry[p] = "upload_file"
    /\ pc' = [pc EXCEPT ![p] = "idle"]
    /\ entry' = [entry EXCEPT ![p] = "none"]
    /\ up' = [up EXCEPT ![p] = NoUp]
    /\ UNCHANGED <<disk, video_id, media_type, tmp_count, upFrame>>

InitUpload ==
    /\ disk \in InitDisks(UpVids, UpSizes)
    /\ InitProcs
    /\ InitDl
    /\ InitUp
    /\ InitSr
    /\ InitOr

NextUpload ==
    \/ \E vid \in UpVids, type_ \in Kinds, tmp_ok \in BOOLEAN : CallUpload("p1", vid, type_, tmp_ok)
    \/ \E o \in TranscodeOutcomes : compress_audio_done("p1", o)
    \/ \E o \in TranscodeOutcomes : convert_to_webm_done("p1", o)
    \/ \E o \in TranscodeOutcomes : compress_video_done("p1", o)
    \/ \E r \in PostOutcomes : upload_posted("p1", r)
    \/ ReturnUpload("p1")

SpecUpload == InitUpload /\ [][NextUpload]_vars

(***************************************************************************)
(* Properties of download().                                               *)
(***************************************************************************)
InDownload(p) == pc[p] \in {"dl_fetch", "dl_sleep", "dl_done"}
\* The number of _run_ydl invocations of p's call that have come back.
Completed(p) == IF pc[p] = "dl_fetch" THEN Len(dl_tiers[p]) - 1 ELSE Len(dl_tiers[p])
\* How many of the first n invocations were made on tier t.
OnTier(p, t, n) == Cardinality({i \in 1..n : dl_tiers[p][i] = t})
LastTier(type_) == Len(tries(type_)) - 1

\* C6: an invocation that raised "requested format is not available" is the
\* last one of its tier, whatever its retry position: the next invocation is
\* the first of the next tier, made without sleeping, or the call fails when
\* the tier was the last one.  When the first invocation (tier 0) raised it
\* and the second (tier 1) returned with the file on disk, the call is over
\* with exactly two invocations and the canonical path as its result.
C6_TierFallback ==
    \A p \in Procs :
        /\ (InDownload(p) /\ Completed(p) > 0 /\ dl_last[p].raised /\ dl_last[p].fmt) =>
              LET n == Completed(p)
                  t == dl_tiers[p][n]
              IN IF t < LastTier(media_type[p])
                 THEN /\ pc[p] = "dl_fetch"
                      /\ Len(dl_tiers[p]) = n + 1
                      /\ dl_tiers[p][n + 1] = t + 1
                      /\ dl_waits[p][n + 1] = 0
                      /\ retry_no[p] = 0
                 ELSE /\ pc[p] = "dl_done"
                      /\ dl_result[p] = DlRet("RuntimeError", NoPath)
        /\ (pc[p] = "dl_done" /\ dl_tiers[p] = <<0, 1>> /\ ~dl_last[p].raised) =>
              /\ dl_result[p] = DlRet("path", file_path(video_id[p], media_type[p]))
              /\ exists(file_path(video_id[p], media_type[p]))

C6_Witness ==
    /\ pc["p1"] = "dl_done"
    /\ dl_tiers["p1"] = <<0, 1>>
    /\ dl_last["p1"] = NoExc
    /\ dl_result["p1"].tag = "path"

\* C9: a call that finds the canonical file of (video_id, type) on disk, or
\* that follows a call which returned a path for the same pair, returns that
\* path at once: no _run_ydl invocation, no sleep.
C9_LocalShortcut ==
    \A p \in Procs :
        (InDownload(p) /\ (dl_existed[p] \/ <<video_id[p], media_type[p]>> \in fetched_ok)) =>
            /\ pc[p] = "dl_done"
            /\ dl_result[p] = DlRet("path", file_path(video_id[p], media_type[p]))
            /\ dl_tiers[p] = <<>>
            /\ dl_waits[p] = <<>>

C9_Witness ==
    /\ pc["p1"] = "dl_done"
    /\ <<video_id["p1"], media_type["p1"]>> \in fetched_ok
    /\ dl_result["p1"].tag = "path"
    /\ dl_tiers["p1"] = <<>>

\* C10: every invocation is preceded by the wait the schedule 0, 1, 2, 4
\* gives its position in its tier; an invocation that raised anything but
\* "format unavailable" (a rate limit as well as any other error) is followed
\* by another one on the same tier until the tier has had exactly 4, and only
\* then by the first invocation of the next tier, with no wait.
C10_RetrySchedule ==
    \A p \in Procs :
        /\ \A i \in 1..Len(dl_tiers[p]) :
              /\ OnTier(p, dl_tiers[p][i], i) <= 4
              /\ dl_waits[p][i] = <<0, 1, 2, 4>>[OnTier(p, dl_tiers[p][i], i)]
        /\ (InDownload(p) /\ Completed(p) > 0 /\ dl_last[p].raised /\ ~dl_last[p].fmt) =>
              LET n == Completed(p)
                  t == dl_tiers[p][n]
                  k == OnTier(p, t, n)
              IN IF k < 4
                 THEN /\ attempt_no[p] = t
                      /\ \/ pc[p] = "dl_sleep" /\ delay[p] = <<0, 1, 2, 4>>[k + 1]
                         \/ pc[p] = "dl_fetch" /\ dl_tiers[p][n + 1] = t
                 ELSE IF t < LastTier(media_type[p])
                 THEN /\ pc[p] = "dl_fetch"
                      /\ dl_tiers[p][n + 1] = t + 1
                      /\ dl_waits[p][n + 1] = 0
                 ELSE /\ pc[p] = "dl_done"
                      /\ dl_result[p] = DlRet("RuntimeError", NoPath)

\* A rate-limit error on the 4th invocation of tier 0 has moved the engine on.
C10_Witness ==
    /\ pc["p1"] = "dl_fetch"
    /\ dl_tiers["p1"] = <<0, 0, 0, 0, 1>>
    /\ dl_waits["p1"] = <<0, 1, 2, 4, 0>>
    /\ dl_last["p1"] = [raised |-> TRUE, fmt |-> FALSE, web |-> TRUE, r429 |-> TRUE]


(***************************************************************************)
(* search_in_db_channel called on its own, while time passes.              *)
(***************************************************************************)
SrVids == {"abc123", "abc"}
\* The channel holds a classifiable match, a match that cannot be classified
\* and a message about something else.
SrMessages == {m \in Messages : m.message_id \in {1, 2, 5}}
SrResponses ==
    {[kind |-> k, result |-> <<>>] : k \in {"exception", "status", "not_ok"}}
        \cup {[kind |-> "ok", result |-> pg] :
                  pg \in UNION {[1..n -> SrMessages] : n \in 0..PageLen}}

CallSearch(p, vid) ==
    /\ pc[p] = "idle"
    /\ entry' = [entry EXCEPT ![p] = "search"]
    /\ search_in_db_channel(p, vid)
    /\ UNCHANGED <<media_type, srFrame>>

ReturnSearch(p) ==
    /\ pc[p] = "sr_done"
    /\ entry[p] = "search"
    /\ pc' = [pc EXCEPT ![p] = "idle"]
    /\ entry' = [entry EXCEPT ![p] = "none"]
    /\ sr' = [sr EXCEPT ![p] = NoSr]
    /\ UNCHANGED <<channel_cache, video_id, media_type, srFrame>>

InitSearch ==
    /\ disk = <<>>
    /\ InitProcs
    /\ InitDl
    /\ InitUp
    /\ InitSr
    /\ InitOr

NextSearch ==
    \/ \E vid \in SrVids : CallSearch("p1", vid)
    \/ \E resp \in SrResponses : search_shallow_done("p1", resp)
    \/ \E resp \in SrResponses : search_deep_done("p1", resp)
    \/ ReturnSearch("p1")
    \/ refresh_db_cache
    \/ \E d \in TickSteps : Tick(d)

SpecSearch == InitSearch /\ [][NextSearch]_vars

(***************************************************************************)
(* Properties of upload_file and _compress_if_needed.                      *)
(***************************************************************************)
\* The planner of p's upload_file has returned.
PlannerDone(p) == pc[p] \in {"up_post", "up_done"} /\ up[p].compressed_path # NoPath
\* ... and it was given an artifact larger than the limit of its kind.
Oversized(p) ==
    /\ PlannerDone(p)
    /\ up[p].orig \in DOMAIN disk
    /\ disk[up[p].orig] > file_limit(media_type[p])
\* ... and it returned the original path.
PlannerGaveUp(p) == Oversized(p) /\ up[p].compressed_path = up[p].orig
\* upload_file replaced the original by the planner's temp file.
Substituted(p) == PlannerDone(p) /\ up[p].compressed_path # up[p].orig

\* C1: given an artifact larger than the limit, _compress_if_needed returns
\* the original path or a compressed file whose size is <= the limit, never
\* a compressed file that is larger than the limit.
C1_CompressionTermination ==
    \A p \in Procs :
        (pc[p] = "up_post" /\ Oversized(p)) =>
            \/ up[p].compressed_path = up[p].orig
            \/ /\ up[p].compressed_path \in DOMAIN disk
               /\ disk[up[p].compressed_path] <= file_limit(media_type[p])

\* C2: when upload_file has returned after substituting a compressed temp
\* file for the original, that temp file is gone, whatever the destination
\* answered.
C2_TempCleanup ==
    \A p \in Procs :
        (pc[p] = "up_done" /\ Substituted(p)) => up[p].compressed_path \notin DOMAIN disk

\* C3 as stated: after the planner returned the oversized original,
\* upload_file never ends with a success result.
C3_OversizeReported ==
    \A p \in Procs :
        (pc[p] = "up_done" /\ PlannerGaveUp(p)) => up[p].result.status = "error"

\* C3 as amended: after the planner returned the oversized original, the file
\* goes out by sendDocument, never sendAudio or sendVideo; the result is a
\* success exactly when the destination answered 200 with ok=true, and it is
\* the error "File too large even after compression" when it answered 413.
C3_OversizeAsDocument ==
    \A p \in Procs :
        PlannerGaveUp(p) =>
            /\ up[p].api_method = "sendDocument"
            /\ up[p].file_path = up[p].orig
            /\ pc[p] = "up_done" =>
                  /\ up[p].result.status = "success" <=> up[p].posted = "200_ok"
                  /\ up[p].result.status = "success" =>
                        up[p].result.file_size > file_limit(media_type[p])
                  /\ up[p].posted = "413" =>
                        up[p].result = UpRet("error", "File too large even after compression")

\* Three audio re-encodes did not help, the original went out and was accepted.
C3_Witness ==
    /\ pc["p1"] = "up_done"
    /\ PlannerGaveUp("p1")
    /\ up["p1"].attempts = <<"128k", "96k", "64k">>
    /\ up["p1"].result.status = "success"


(***************************************************************************)
(* Properties of search_in_db_channel.                                     *)
(***************************************************************************)
InSearch(p) == pc[p] \in {"sr_shallow", "sr_deep", "sr_done"}

\* C5: a lookup at time t' that finds an entry inserted at time t returns that
\* entry's file_info without any page fetch when t' < t + CACHE_TTL; when
\* t' >= t + CACHE_TTL it fetches at least one page and what it returns is
\* None or an entry found in a page it fetched.  An entry's timestamp is the
\* time of its insertion, so it is never in the future.
C5_TtlLaw ==
    /\ \A vid \in DOMAIN channel_cache : channel_cache[vid].timestamp <= now
    /\ \A p \in Procs :
        (InSearch(p) /\ sr[p].had # None) =>
            IF sr[p].t_call < sr[p].had.timestamp + 3600
            THEN /\ pc[p] = "sr_done"
                 /\ sr[p].result = sr[p].had.info
                 /\ sr[p].fetches = 0
                 /\ sr[p].source = "cache"
            ELSE /\ sr[p].fetches >= 1
                 /\ sr[p].source # "cache"
                 /\ (pc[p] = "sr_done" /\ sr[p].result # None) =>
                        sr[p].source \in {"shallow", "deep"}

\* A lookup exactly CACHE_TTL seconds after the insertion searched afresh.
C5_Witness ==
    /\ pc["p1"] = "sr_done"
    /\ sr["p1"].had # None
    /\ sr["p1"].t_call - sr["p1"].had.timestamp = 3600
    /\ sr["p1"].fetches >= 1
    /\ sr["p1"].result # None

\* A lookup less than CACHE_TTL seconds after the insertion was served from
\* the cache.
C5_WitnessHit ==
    /\ pc["p1"] = "sr_done"
    /\ sr["p1"].had # None
    /\ sr["p1"].t_call - sr["p1"].had.timestamp = 3598
    /\ sr["p1"].source = "cache"

(***************************************************************************)
(* The service: two requests at a time on /song and /video, each followed  *)
(* by its background relay.                                                *)
(***************************************************************************)
OrVids == {"abc123"}
\* The fetch tool writes the file or fails with "requested format is not
\* available"; the retry schedule has a specification of its own.
OrFetches ==
    {[res |-> NoExc, wrote |-> TELEGRAM_FILE_LIMIT],
     [res |-> NoExc, wrote |-> TELEGRAM_FILE_LIMIT + 1],
     [res |-> [raised |-> TRUE, fmt |-> TRUE, web |-> FALSE, r429 |-> FALSE], wrote |-> -1]}
OrMessages == {m \in Messages : m.message_id = 1}
OrResponses ==
    {[kind |-> "exception", result |-> <<>>], [kind |-> "ok", result |-> <<>>]}
        \cup {[kind |-> "ok", result |-> <<m>>] : m \in OrMessages}
OrTranscodes == {[rc0 |-> TRUE, wrote |-> 45 * MB], [rc0 |-> FALSE, wrote |-> -1]}
ApiTranscodes == OrTranscodes \cup {[rc0 |-> TRUE, wrote |-> 60 * MB]}
OrPosts == {"200_ok", "timeout"}
ApiPosts == OrPosts \cup {"413", "500"}

InitOrch ==
    /\ disk = <<>>
    /\ InitProcs
    /\ InitDl
    /\ InitUp
    /\ InitSr
    /\ InitOr

NextOrch ==
    \E p \in Procs :
        \/ \E vid \in OrVids, upload \in BOOLEAN : song(p, vid, upload, API_KEY)
        \/ \E vid \in OrVids, upload \in BOOLEAN : video(p, vid, upload, API_KEY)
        \/ \E vid \in OrVids, type_ \in Kinds :
              get_upload_status(p, task_id(vid, type_), API_KEY)
        \/ \E o \in OrFetches : download_fetched(p, o)
        \/ local_download_done(p)
        \/ \E resp \in OrResponses : search_shallow_done(p, resp)
        \/ \E resp \in OrResponses : search_deep_done(p, resp)
        \/ secondary_search_done(p)
        \/ \E answer \in UrlAnswers : get_file_download_url_done(p, answer)
        \/ respond(p)
        \/ upload_to_telegram_background(p, TRUE)
        \/ \E o \in OrTranscodes : compress_audio_done(p, o)
        \/ \E o \in OrTranscodes : convert_to_webm_done(p, o)
        \/ \E o \in OrTranscodes : compress_video_done(p, o)
        \/ \E r \in OrPosts : upload_posted(p, r)
        \/ relay_done(p)
        \/ request_end(p)

SpecOrch == InitOrch /\ [][NextOrch]_vars

(***************************************************************************)
(* The service with all its gated routes and any key, one request after    *)
(* the other.                                                              *)
(***************************************************************************)
NextApi ==
    \/ \E vid \in OrVids, upload \in BOOLEAN, api \in ApiKeys : song("p1", vid, upload, api)
    \/ \E vid \in OrVids, upload \in BOOLEAN, api \in ApiKeys : video("p1", vid, upload, api)
    \/ \E url \in Urls, type_ \in Types, upload \in BOOLEAN, api \in ApiKeys :
          download_endpoint("p1", url, type_, upload, api)
    \/ \E vid \in OrVids, type_ \in Types, api \in ApiKeys :
          upload_file_directly("p1", vid, type_, api)
    \/ upload_file_directly_done("p1")
    \/ \E vid \in OrVids, type_ \in Kinds, api \in ApiKeys :
          get_upload_status("p1", task_id(vid, type_), api)
    \/ \E vid \in OrVids, api \in ApiKeys : search_db_channel("p1", vid, api)
    \/ search_db_channel_done("p1")
    \/ \E api \in ApiKeys : refresh_db_cache_request("p1", api)
    \/ \E o \in OrFetches : download_fetched("p1", o)
    \/ local_download_done("p1")
    \/ \E resp \in OrResponses : search_shallow_done("p1", resp)
    \/ \E resp \in OrResponses : search_deep_done("p1", resp)
    \/ secondary_search_done("p1")
    \/ \E answer \in UrlAnswers : get_file_download_url_done("p1", answer)
    \/ respond("p1")
    \/ upload_to_telegram_background("p1", TRUE)
    \/ \E o \in ApiTranscodes : compress_audio_done("p1", o)
    \/ \E o \in ApiTranscodes : convert_to_webm_done("p1", o)
    \/ \E o \in ApiTranscodes : compress_video_done("p1", o)
    \/ \E r \in ApiPosts : upload_posted("p1", r)
    \/ relay_done("p1")
    \/ request_end("p1")

SpecApi == InitOrch /\ [][NextApi]_vars

(***************************************************************************)
(* Properties of the orchestrator and of the task registry.                *)
(***************************************************************************)
InRequest(p) == entry[p] \in Endpoints
InPrimary(p) == pc[p] \in {"dl_fetch", "dl_sleep", "dl_done"}
InSecondary(p) == pc[p] \in {"sr_shallow", "sr_deep", "sr_done"}
InRelay(p) == pc[p] \in {"cp_audio", "cp_webm", "cp_video", "up_post", "up_done"}
Returned(p) == InRequest(p) /\ rq[p].download_info # NoInfo
Invocations(calls, name) == Cardinality({i \in DOMAIN calls : calls[i] = name})

\* C7: download_media invokes the primary engine first; when the primary
\* succeeded the directory search is never invoked for the request; when it
\* failed the search is invoked exactly once, after the primary and before
\* download_media returns its error (or its remote success).
C7_FallbackOrdering ==
    \A p \in Procs :
        InRequest(p) =>
            LET calls == rq[p].calls
                local_result == rq[p].local_result
            IN /\ calls # <<>> /\ calls[1] = "primary"
               /\ Invocations(calls, "primary") = 1
               /\ InPrimary(p) => calls = <<"primary">> /\ local_result = NoLocal
               /\ InSecondary(p) =>
                      calls = <<"primary", "secondary">> /\ local_result.status = "error"
               /\ local_result.status = "success" =>
                      /\ Invocations(calls, "secondary") = 0
                      /\ ~InSecondary(p) /\ sr[p] = NoSr
               /\ (Returned(p) /\ local_result.status # "success") =>
                      /\ Invocations(calls, "secondary") = 1
                      /\ calls[2] = "secondary"
               /\ (Returned(p) /\ rq[p].download_info.status = "error") =>
                      Invocations(calls, "secondary") = 1

\* A request whose primary failed has been answered with an error after one search.
C7_Witness ==
    /\ pc["p1"] = "responded"
    /\ rq["p1"].local_result.status = "error"
    /\ rq["p1"].calls = <<"primary", "secondary">>
    /\ rq["p1"].response.status = "error"

\* C8: download_media always returns (it never raises), and what it returns is
\* exactly one of: a success with the local link, when the primary succeeded; a
\* success with the remote link, when the primary failed, the search found an
\* entry and getFile resolved it; an error with a message, when the primary
\* failed and the search returned None or the resolution failed.
C8_ThreeOutcomes ==
    \A p \in Procs :
        InRequest(p) =>
            LET info == rq[p].download_info
                local_result == rq[p].local_result
                db_file == rq[p].db_file
                file_url == rq[p].file_url
            IN /\ (InPrimary(p) \/ InSecondary(p) \/ pc[p] = "dm_url") <=> info = NoInfo
               /\ info # NoInfo =>
                    \/ /\ info.status = "success" /\ info.source = "local_downloader"
                       /\ info.link = LocalLink(video_id[p])
                       /\ local_result.status = "success"
                       /\ db_file = None /\ file_url = None
                    \/ /\ info.status = "success" /\ info.source = "telegram_db"
                       /\ local_result.status = "error"
                       /\ db_file # None /\ file_url # None
                       /\ info.link = RemoteLink(db_file.file_id)
                    \/ /\ info.status = "error" /\ info.source = ""
                       /\ info.message # "" /\ info.link = NoLink
                       /\ local_result.status = "error"
                       /\ \/ db_file = None /\ rq[p].calls = <<"primary", "secondary">>
                          \/ /\ db_file # None /\ file_url = None
                             /\ rq[p].calls = <<"primary", "secondary", "resolve">>

\* A request has been answered with the remote link.
C8_Witness ==
    /\ pc["p1"] = "responded"
    /\ rq["p1"].download_info.source = "telegram_db"
    /\ rq["p1"].response.code = 200
    /\ rq["p1"].response.link = RemoteLink(rq["p1"].db_file.file_id)

TerminalStatuses == {"completed", "failed", "error"}

\* C4: under every key of background_upload_tasks the status only moves from
\* uploading to a terminal status; a terminal status is never replaced by
\* another status and never goes back to uploading.
C4_StatusMonotonic ==
    [][\A k \in DOMAIN background_upload_tasks :
          LET before == background_upload_tasks[k].status
              after == background_upload_tasks'[k].status
          IN /\ before \in TerminalStatuses => after = before
             /\ before = "uploading" => after \in {"uploading"} \cup TerminalStatuses]_vars

\* C4 (per relay): every background relay writes uploading under its key once,
\* when it starts, and then one terminal status when upload_file has returned,
\* completed exactly for a success result and failed otherwise; it writes
\* nothing else, and the entry of a key always holds the last status written
\* under it by some relay.
C4_RelayRunMonotonic ==
    /\ \A k \in DOMAIN background_upload_tasks :
          background_upload_tasks[k].status \in {"uploading", "completed", "failed"}
    /\ \A p \in Procs :
          LET writes == rq[p].writes
              k == task_id(video_id[p], media_type[p])
          IN /\ InRequest(p) /\ InRelay(p) =>
                  /\ writes = <<"uploading">>
                  /\ k \in DOMAIN background_upload_tasks
             /\ InRequest(p) /\ pc[p] = "bg_done" =>
                  /\ Len(writes) = 2 /\ writes[1] = "uploading"
                  /\ writes[2] \in {"completed", "failed"}
                  /\ writes[2] = "completed" <=> rq[p].upload_result.status = "success"
                  /\ k \in DOMAIN background_upload_tasks
                  /\ background_upload_tasks[k].status = "uploading" =>
                         \E q \in Procs \ {p} :
                             /\ InRelay(q) /\ task_id(video_id[q], media_type[q]) = k
             /\ ~(InRelay(p) \/ pc[p] = "bg_done") => writes = <<>>

\* A relay has written its terminal status and the key shows uploading
\* again, written over it by a later relay of the same key.
C4_Witness ==
    /\ pc["p1"] = "bg_done"
    /\ rq["p1"].writes = <<"uploading", "completed">>
    /\ InRelay("p2")
    /\ task_id(video_id["p2"], media_type["p2"]) = task_id(video_id["p1"], media_type["p1"])
    /\ background_upload_tasks[task_id(video_id["p1"], media_type["p1"])].status = "uploading"

(***************************************************************************)
(* The engine called on its own, with every sleep ending and every fetch   *)
(* invocation returning or raising.                                        *)
(***************************************************************************)
SpecDownloadLive ==
    /\ SpecDownload
    /\ WF_vars(download_wake("p1"))
    /\ WF_vars(\E o \in DlOutcomes : download_fetched("p1", o))

\* What the orchestrator sees of a call that raised 'attempts failed'.
AllTiersExhausted == LocalResult("error", "Local download error: attempts failed", NoPath)

C11_Bounds ==
    \A p \in Procs :
        LET n == Len(dl_tiers[p])
        IN /\ n <= 12
           /\ \A i \in 1..n :
                 /\ dl_tiers[p][i] \in 0..2
                 /\ i = 1 => dl_tiers[p][i] = 0
                 /\ i > 1 => dl_tiers[p][i] \in {dl_tiers[p][i - 1], dl_tiers[p][i - 1] + 1}
           /\ (pc[p] = "dl_done" /\ dl_result[p].tag = "RuntimeError") =>
                 /\ \A t \in 0..2 : OnTier(p, t, n) >= 1
                 /\ dl_tiers[p][n] = 2
                 /\ OnTier(p, 2, n) = 4 \/ (dl_last[p].raised /\ dl_last[p].fmt)
                 /\ LocalOutcome(dl_result[p], disk) = AllTiersExhausted
           /\ (pc[p] = "dl_done" /\ media_type[p] \in Kinds) =>
                 dl_result[p].tag \in {"path", "RuntimeError"}

\* C11: a call of download() whose sleeps end and whose fetch invocations all
\* return or raise comes to its end; it makes at most 12 invocations, on the
\* tiers 0, 1, 2 in this order, and it raises 'attempts failed' only when all
\* three tiers have been tried and the last one was abandoned (format
\* unavailable) or had its 4 invocations; LocalDownloadManager turns that into
\* one error result that carries nothing of the tiers or retries.
C11_Terminates ==
    /\ []C11_Bounds
    /\ (pc["p1"] \in {"dl_sleep", "dl_fetch"}) ~> (pc["p1"] = "dl_done")

\* A call has failed after 12 invocations.
C11_Witness ==
    /\ pc["p1"] = "dl_done"
    /\ dl_result["p1"].tag = "RuntimeError"
    /\ Len(dl_tiers["p1"]) = 12

\* C12: whenever download() has returned a path, the file at that path has a
\* size other than zero, whether the path came from the existence shortcut or
\* from a fetch attempt.
C12_NonZeroSize ==
    \A p \in Procs :
        (pc[p] = "dl_done" /\ dl_result[p].tag = "path") =>
            /\ exists(dl_result[p].path)
            /\ getsize(dl_result[p].path) > 0

\* C13: once a page fetch of a search has failed (the shallow page or a page
\* of the deep search), the search makes no further page fetch and returns
\* None.
C13_FailureAborts ==
    \A p \in Procs :
        (InSearch(p) /\ sr[p].failed_at # 0) =>
            /\ sr[p].fetches = sr[p].failed_at
            /\ pc[p] = "sr_done"
            /\ sr[p].result = None

(***************************************************************************)
(* search_in_db_channel called on its own, with every page request         *)
(* answered or failing.                                                    *)
(***************************************************************************)
SpecSearchLive ==
    /\ SpecSearch
    /\ WF_vars(\E resp \in SrResponses : search_shallow_done("p1", resp))
    /\ WF_vars(\E resp \in SrResponses : search_deep_done("p1", resp))

C14_Bounds ==
    \A p \in Procs :
        InSearch(p) =>
            LET s == sr[p]
            IN /\ s.fetches <= 6 /\ s.page <= 5
               /\ pc[p] = "sr_shallow" => s.page = 0 /\ s.fetches = 1
               /\ pc[p] = "sr_deep" =>
                     /\ s.page >= 1 /\ s.fetches = s.page + 1
                     /\ s.first_match = None
                     /\ s.page = 1 => s.offset_id = 0
                     /\ s.page > 1 => s.offset_id = s.last_seen /\ s.last_len > 0
               /\ (pc[p] = "sr_done" /\ s.source = "shallow") =>
                     s.fetches = 1 /\ s.result # None /\ s.result = s.first_match
               /\ (pc[p] = "sr_done" /\ s.source = "deep") =>
                     s.fetches >= 2 /\ s.result # None /\ s.result = s.first_match
               /\ (pc[p] = "sr_done" /\ s.source = "") => s.result = None
               /\ (pc[p] = "sr_done" /\ s.fetches >= 2 /\ s.failed_at = 0 /\ s.source = "") =>
                     \/ s.last_len = 0
                     \/ s.page = 5 /\ s.first_match = None

\* C14: the deep search starts only when the shallow page gave no match; it
\* requests at most 5 pages, the first with cursor 0 and each later one with
\* the message_id of the last message of the page before; it ends at the
\* first empty page, returns the first classifiable match of a page and
\* otherwise None; a whole search makes at most 6 page requests and, when
\* every request is answered or fails, comes to its end.
C14_DeepSearchBounded ==
    /\ []C14_Bounds
    /\ (pc["p1"] \in {"sr_shallow", "sr_deep"}) ~> (pc["p1"] = "sr_done")

\* The entry was found on the fifth page of the deep search.
C14_Witness ==
    /\ pc["p1"] = "sr_done"
    /\ sr["p1"].source = "deep"
    /\ sr["p1"].fetches = 6
    /\ sr["p1"].offset_id # 0

Responded(p) == rq[p].response # NoResponse
RelayStarted(p) == InRelay(p) \/ pc[p] = "bg_done" \/ rq[p].writes # <<>>

C15_ResponseFirst ==
    \A p \in Procs :
        /\ RelayStarted(p) => Responded(p) /\ rq[p].scheduled
        /\ (pc[p] = "responded" /\ rq[p].scheduled) =>
              /\ rq[p].writes = <<>>
              /\ up[p] = NoUp

\* C15: the relay of a request takes its first step (registry write,
\* compression, upload) only after the response of the request has been
\* produced, and from then on the response stays what it is, whatever the
\* relay does, until the request and its relay are over.
C15_NonBlocking ==
    /\ []C15_ResponseFirst
    /\ [][\A p \in Procs :
             (Responded(p) /\ pc'[p] # "idle") => rq'[p].response = rq[p].response]_vars

\* /download answered success, and the relay it scheduled then failed.
C15_Witness ==
    /\ pc["p1"] = "bg_done"
    /\ rq["p1"].endpoint = "download_endpoint"
    /\ rq["p1"].response.status = "success"
    /\ rq["p1"].response.background_upload
    /\ rq["p1"].writes = <<"uploading", "failed">>

RelayAnnounced(p) ==
    /\ entry[p] \in Endpoints
    /\ rq[p].response # NoResponse
    /\ rq[p].response.background_upload

\* C16: from the moment a response announcing the background relay has been
\* produced until that relay has finished, background_upload_tasks holds an
\* entry under the task id of the request, and its status is uploading.
C16_EntryFromResponse ==
    \A p \in Procs :
        (RelayAnnounced(p) /\ (pc[p] = "responded" \/ InRelay(p))) =>
            LET k == task_id(video_id[p], media_type[p])
            IN /\ k \in DOMAIN background_upload_tasks
               /\ background_upload_tasks[k].status = "uploading"

UploadErrors ==
    {"File not found", "File too large even after compression", "Upload timeout",
     "Upload failed", "Upload failed: 500", "Upload error"}

\* C17: the relay never raises and records its outcome in the registry: the
\* upload always hands back a result, success or an error with its message; the
\* relay then writes completed for a success and failed for an error, with that
\* result as the payload of the entry, and ends; the status error, kept for an
\* exception escaping the upload, is written in no other case.
C17_FailuresRecorded ==
    /\ [](\A p \in Procs :
            /\ (entry[p] \in Relayers /\ pc[p] = "up_done") =>
                  \/ up[p].result.status = "success"
                  \/ up[p].result.status = "error" /\ up[p].result.message \in UploadErrors
            /\ (entry[p] \in Relayers /\ pc[p] = "bg_done" /\ telegram_configured) =>
                  /\ rq[p].upload_result.status \in {"success", "error"}
                  /\ rq[p].upload_result.status = "success" =>
                         rq[p].writes = <<"uploading", "completed">>
                  /\ rq[p].upload_result.status = "error" =>
                         rq[p].writes = <<"uploading", "failed">>
            /\ \A k \in DOMAIN background_upload_tasks :
                  background_upload_tasks[k].status # "error")
    /\ [][\A p \in Procs :
             (entry[p] \in Relayers /\ pc[p] = "up_done" /\ pc'[p] # "up_done") =>
                 LET k == task_id(video_id[p], media_type[p])
                     result == up[p].result
                 IN /\ pc'[p] = "bg_done"
                    /\ k \in DOMAIN background_upload_tasks'
                    /\ background_upload_tasks'[k].result = result
                    /\ background_upload_tasks'[k].status =
                           (IF result.status = "success" THEN "completed" ELSE "failed")
                    /\ rq'[p].response = rq[p].response]_vars

\* A relay whose upload was refused as too large has recorded failed with
\* that result.
C17_Witness ==
    /\ pc["p1"] = "bg_done"
    /\ rq["p1"].upload_result = UpRet("error", "File too large even after compression")
    /\ background_upload_tasks[task_id(video_id["p1"], media_type["p1"])].status = "failed"
    /\ background_upload_tasks[task_id(video_id["p1"], media_type["p1"])].result =
           rq["p1"].upload_result

TaskKey(p) == task_id(video_id[p], media_type[p])
Last(s) == s[Len(s)]

\* C18: a relay is started whether or not another relay of the same key is in
\* flight, and every write of a relay replaces whatever the registry holds
\* under its key: after the write the one entry of the key carries the status
\* just written, entries of other keys are untouched, and an entry changes
\* only by such a write; so the status recorded is that of the last write.
C18_LastWriteWins ==
    [][/\ \A p \in Procs :
            rq'[p].writes # rq[p].writes /\ rq'[p].writes # <<>> =>
                /\ TaskKey(p) \in DOMAIN background_upload_tasks'
                /\ background_upload_tasks'[TaskKey(p)].status = Last(rq'[p].writes)
                /\ \A k \in DOMAIN background_upload_tasks \ {TaskKey(p)} :
                      background_upload_tasks'[k] = background_upload_tasks[k]
       /\ DOMAIN background_upload_tasks \subseteq DOMAIN background_upload_tasks'
       /\ \A k \in DOMAIN background_upload_tasks' :
            (k \notin DOMAIN background_upload_tasks
               \/ background_upload_tasks'[k] # background_upload_tasks[k]) =>
                \E p \in Procs :
                    /\ TaskKey(p) = k
                    /\ Len(rq'[p].writes) = Len(rq[p].writes) + 1]_vars

\* Two relays of one key overlapped: the second is still in flight, having
\* written uploading, and the entry shows failed, written over it by the first.
C18_Witness ==
    /\ pc["p1"] = "bg_done"
    /\ rq["p1"].writes = <<"uploading", "failed">>
    /\ InRelay("p2")
    /\ rq["p2"].writes = <<"uploading">>
    /\ TaskKey("p2") = TaskKey("p1")
    /\ background_upload_tasks[TaskKey("p1")].status = "failed"

Fetching(p) == pc[p] = "dl_fetch"

\* C19: download() has no lock per (identifier, kind): a request that finds no
\* file at the canonical path goes straight into its first fetch invocation,
\* also while another request is inside a fetch invocation for the same path,
\* and a fetch invocation under way is left as it is by the requests that
\* start beside it.
C19_NoSerialisation ==
    [][\A p \in Procs :
          /\ (pc[p] = "idle" /\ entry'[p] \in Endpoints
                /\ ~exists(file_path(video_id'[p], media_type'[p]))) =>
                /\ Fetching(p)'
                /\ ~dl_existed'[p]
                /\ dl_tiers'[p] = <<0>>
          /\ (Fetching(p) /\ \E q \in Procs \ {p} : pc[q] = "idle" /\ pc'[q] # "idle") =>
                Fetching(p)']_vars

\* Both workers are inside a fetch invocation for the same canonical path,
\* which does not exist yet.
C19_Witness ==
    /\ Fetching("p1") /\ Fetching("p2")
    /\ video_id["p1"] = video_id["p2"]
    /\ media_type["p1"] = media_type["p2"]
    /\ ~dl_existed["p1"] /\ ~dl_existed["p2"]
    /\ ~exists(file_path(video_id["p1"], media_type["p1"]))

GatedRoutes ==
    {"song", "video", "download_endpoint", "get_upload_status", "upload_file_directly",
     "search_db_channel", "refresh_db_cache"}

\* C20: a request to a gated route whose api parameter is not API_KEY is
\* answered 403 and nothing else: the step that takes it leaves the disk, the
\* cache and the task registry as they were and starts no fetch, search or
\* relay, the request runs no handler step afterwards, and a request that did
\* run one carried API_KEY.
C20_SharedSecretGate ==
    /\ [](\A p \in Procs :
            /\ (rq[p].endpoint # "" /\ rq[p].api # "Shadow") =>
                  /\ pc[p] = "responded"
                  /\ rq[p].response = Response(403, "", NoLink, "", FALSE, "Invalid API Key")
                  /\ rq[p].calls = <<>> /\ rq[p].writes = <<>>
                  /\ ~rq[p].scheduled
                  /\ sr[p] = NoSr /\ up[p] = NoUp
                  /\ dl_tiers[p] = <<>>
            /\ rq[p].endpoint # "" => rq[p].endpoint \in GatedRoutes
            /\ (rq[p].endpoint # "" /\ rq[p].response.code # 403) => rq[p].api = "Shadow")
    /\ [][\A p \in Procs :
             (pc[p] = "idle" /\ rq'[p].endpoint # "" /\ rq'[p].api # "Shadow") =>
                 /\ disk' = disk
                 /\ channel_cache' = channel_cache
                 /\ background_upload_tasks' = background_upload_tasks
                 /\ dlVars' = dlVars /\ upVars' = upVars /\ srVars' = srVars]_vars

\* The clear-cache route has refused a wrong key while the cache held an entry.
C20_Witness ==
    /\ pc["p1"] = "responded"
    /\ rq["p1"].endpoint = "refresh_db_cache"
    /\ rq["p1"].api = "wrong"
    /\ rq["p1"].response.code = 403
    /\ channel_cache # <<>>

\* The temp files the planner run of p has created that are on disk.
PlannerTemps(p) ==
    IF up[p].temp_path = NoPath THEN {}
    ELSE {up[p].temp_path, WebmPath(up[p].temp_path)} \cap DOMAIN disk

\* C21: when _compress_if_needed has returned, at most one temp file created
\* by the call is on disk, namely the file it returned; the output of the
\* format switch (temp_path + ".webm") and the temp file of a call that
\* returned the original are gone.
C21_TempGuarantee ==
    \A p \in Procs :
        (pc[p] = "up_post" /\ PlannerDone(p)) =>
            /\ Cardinality(PlannerTemps(p)) <= 1
            /\ PlannerTemps(p) \subseteq {up[p].compressed_path}

\* upload_file of p has chosen its transfer method.
MethodChosen(p) == pc[p] = "up_post" \/ (pc[p] = "up_done" /\ up[p].posted # "")

\* C22: for an artifact of kind audio or video the transfer method is
\* sendDocument exactly when the size of the file that goes out (the planner's
\* file when it was substituted) is greater than the limit of the kind;
\* otherwise it is sendAudio for audio and sendVideo for video, also when the
\* size equals the limit.
C22_MethodSelection ==
    \A p \in Procs :
        (MethodChosen(p) /\ media_type[p] \in {"audio", "video"}) =>
            LET size == up[p].file_size
                lim == IF media_type[p] = "audio" THEN 50 * 1024 * 1024 ELSE 50 * 1024 * 1024
            IN /\ pc[p] = "up_post" =>
                    /\ up[p].file_path \in DOMAIN disk
                    /\ size = disk[up[p].file_path]
                    /\ up[p].file_path = up[p].compressed_path
               /\ up[p].api_method = "sendDocument" <=> size > lim
               /\ (size <= lim /\ media_type[p] = "audio") => up[p].api_method = "sendAudio"
               /\ (size <= lim /\ media_type[p] = "video") => up[p].api_method = "sendVideo"

\* A compressed video of exactly the limit goes out by sendVideo.
C22_Witness ==
    /\ pc["p1"] = "up_post"
    /\ media_type["p1"] = "video"
    /\ Substituted("p1")
    /\ up["p1"].file_size = TELEGRAM_VIDEO_LIMIT
    /\ up["p1"].api_method = "sendVideo"

\* C23: upload_file always returns a result, success or error; it is a success
\* only when the destination answered 200 with ok = true; an answer 413 gives
\* the error "File too large even after compression", a timeout gives "Upload
\* timeout", another non-200 status gives "Upload failed: <status>", and 200
\* with ok = false, a malformed answer or a transport error give an error too.
C23_OutcomeMapping ==
    \A p \in Procs :
        pc[p] = "up_done" =>
            LET result == up[p].result
                posted == up[p].posted
            IN /\ result.status \in {"success", "error"}
               /\ result.status = "success" <=> posted = "200_ok"
               /\ posted = "" => result.message = "File not found"
               /\ posted = "413" => result.message = "File too large even after compression"
               /\ posted = "timeout" => result.message = "Upload timeout"
               /\ posted = "500" => result.message = "Upload failed: 500"
               /\ posted = "200_not_ok" => result.message = "Upload failed"
               /\ posted \in {"200_malformed", "exception"} => result.message = "Upload error"
               /\ result.status = "error" => result.message # ""

\* The destination answered 200 with ok = false and the result is an error.
C23_Witness ==
    /\ pc["p1"] = "up_done"
    /\ up["p1"].posted = "200_not_ok"
    /\ up["p1"].result.status = "error"
    /\ up["p1"].result.message = "Upload failed"

Canonical(path) == path.dir = DOWNLOAD_FOLDER

\* C24: no step of upload_file or of _compress_if_needed deletes, renames or
\* overwrites a file of the download folder: such a file is still there with
\* the same content after the step, and every file a step removes is a temp
\* file of the planner.
C24_CanonicalUntouched ==
    [][/\ \A path \in DOMAIN disk :
             Canonical(path) => path \in DOMAIN disk' /\ disk'[path] = disk[path]
       /\ \A path \in DOMAIN disk \ DOMAIN disk' : path.dir = "tmp"
       /\ \A path \in DOMAIN disk' \ DOMAIN disk : path.dir = "tmp"]_vars

\* A relay of an oversized artifact is over: the planner had made a temp
\* file and removed it again, and the original is where it was.
C24_Witness ==
    /\ pc["p1"] = "up_done"
    /\ up["p1"].temp_path # NoPath
    /\ up["p1"].temp_path \notin DOMAIN disk
    /\ up["p1"].posted = "200_ok"
    /\ up["p1"].orig \in DOMAIN disk
    /\ disk[up["p1"].orig] = 120 * MB

IsPrefix(s, t) == Len(s) <= Len(t) /\ \A i \in 1..Len(s) : s[i] = t[i]
\* The output of the latest transcode attempt of p is on disk within the limit.
LastAttemptFits(p) ==
    /\ up[p].success
    /\ up[p].temp_path \in DOMAIN disk
    /\ disk[up[p].temp_path] <= 50 * 1024 * 1024
AudioPlanned(p) == media_type[p] = "audio" /\ up[p].attempts # <<>>

\* C25: for an oversized audio artifact the planner re-encodes at 128k, 96k,
\* 64k in this order and at most three times, always into the one temp path of
\* the call; it goes on to the next bitrate only when the attempt before failed
\* or left a file larger than the limit, and when it has stopped before 64k the
\* attempt it stopped at succeeded with a file within the limit, which is the
\* file it returns.
C25_AudioPolicy ==
    /\ [](\A p \in Procs :
            AudioPlanned(p) =>
                /\ IsPrefix(up[p].attempts, <<"128k", "96k", "64k">>)
                /\ Len(up[p].attempts) <= 3
                /\ WebmPath(up[p].temp_path) \notin DOMAIN disk
                /\ pc[p] = "cp_audio" =>
                      /\ up[p].temp_path \in DOMAIN disk
                      /\ Len(up[p].attempts) > 1 => ~LastAttemptFits(p)
                /\ (pc[p] = "up_post" /\ Len(up[p].attempts) < 3) =>
                      /\ LastAttemptFits(p)
                      /\ up[p].compressed_path = up[p].temp_path)
    /\ [][\A p \in Procs :
             (pc[p] = "cp_audio" /\ pc'[p] \in {"cp_audio", "up_post"}) =>
                 /\ up'[p].temp_path = up[p].temp_path
                 /\ DOMAIN disk' \subseteq DOMAIN disk]_vars

\* The 128k re-encode was rejected, the 96k one fitted and 64k was not tried.
C25_Witness ==
    /\ pc["p1"] = "up_post"
    /\ media_type["p1"] = "audio"
    /\ up["p1"].attempts = <<"128k", "96k">>
    /\ up["p1"].compressed_path = up["p1"].temp_path
    /\ disk[up["p1"].temp_path] = 45 * MB

VideoPlanned(p) == media_type[p] = "video" /\ up[p].attempts # <<>>

C27_OnlyOversize ==
    /\ [](\A p \in Procs :
            (pc[p] \in {"cp_audio", "cp_webm", "cp_video"} \/ up[p].attempts # <<>>) =>
                /\ up[p].orig \in DOMAIN disk
                /\ disk[up[p].orig] > 50 * 1024 * 1024)
    /\ [][\A p \in Procs :
             LET fp == file_path(video_id'[p], media_type'[p])
             IN (pc[p] = "idle" /\ pc'[p] # "idle" /\ entry'[p] = "upload_file"
                   /\ fp \in DOMAIN disk /\ disk[fp] <= 50 * 1024 * 1024) =>
                    /\ pc'[p] = "up_post"
                    /\ up'[p].compressed_path = fp
                    /\ up'[p].file_path = fp
                    /\ up'[p].file_size = disk[fp]
                    /\ up'[p].attempts = <<>>
                    /\ up'[p].temp_path = NoPath
                    /\ tmp_count' = tmp_count
                    /\ disk' = disk]_vars

\* An artifact of exactly the limit is on its way out as it is.
C27_Witness ==
    /\ pc["p1"] = "up_post"
    /\ up["p1"].file_size = TELEGRAM_FILE_LIMIT
    /\ up["p1"].compressed_path = up["p1"].orig
    /\ up["p1"].attempts = <<>>
    /\ tmp_count = 0

\* A _run_ydl invocation of p's call comes back in this step.
FetchReturns(p) ==
    /\ pc[p] = "dl_fetch"
    /\ pc'[p] # "dl_fetch" \/ dl_tiers'[p] # dl_tiers[p]

\* C28: when a fetch invocation comes back, download() returns the canonical
\* path only if the invocation did not raise and the canonical file exists; an
\* invocation that came back without raising and without the file is a failed
\* attempt: the engine sleeps for the next retry of the same tier, or, after
\* the fourth invocation of the tier, starts the next tier, or, on the last
\* tier, raises.
C28_ExistenceIsSuccess ==
    [][\A p \in Procs :
          FetchReturns(p) =>
              LET fp == file_path(video_id[p], media_type[p])
                  came_back == ~dl_last'[p].raised
                  there == fp \in DOMAIN disk'
                  returned == pc'[p] = "dl_done" /\ dl_result'[p].tag = "path"
              IN /\ returned <=> (came_back /\ there)
                 /\ returned => dl_result'[p].path = fp
                 /\ (came_back /\ ~there) =>
                      IF retry_no[p] < 3
                      THEN /\ pc'[p] = "dl_sleep"
                           /\ attempt_no'[p] = attempt_no[p]
                           /\ retry_no'[p] = retry_no[p] + 1
                      ELSE IF attempt_no[p] < 2
                      THEN /\ pc'[p] = "dl_fetch"
                           /\ attempt_no'[p] = attempt_no[p] + 1
                           /\ retry_no'[p] = 0
                      ELSE /\ pc'[p] = "dl_done"
                           /\ dl_result'[p].tag = "RuntimeError"]_vars

\* The fourth invocation of the first tier came back without raising and
\* without the file; the engine is in the first invocation of the second tier.
C28_Witness ==
    /\ pc["p1"] = "dl_fetch"
    /\ dl_tiers["p1"] = <<0, 0, 0, 0, 1>>
    /\ ~dl_last["p1"].raised
    /\ ~exists(file_path(video_id["p1"], media_type["p1"]))

\* The search of p ends in this step after at least one page fetch.
SearchEnds(p) == pc[p] \in {"sr_shallow", "sr_deep"} /\ pc'[p] = "sr_done"

\* C29: a search that ends with an entry found in a page stores that entry
\* with the current time under its identifier and touches no other entry; a
\* search that ends with None leaves channel_cache as it was; a lookup that
\* starts leaves it as it was too and, when it finds an entry younger than
\* the TTL, returns that entry without a page fetch; channel_cache changes in
\* no other way than by such a store or by the clearing of the whole cache.
C29_CacheOnHit ==
    [][/\ \A p \in Procs :
            /\ SearchEnds(p) =>
                 LET vid == video_id[p]
                     found == sr'[p].result
                 IN IF found # None
                    THEN /\ vid \in DOMAIN channel_cache'
                         /\ channel_cache'[vid] = [info |-> found, timestamp |-> now]
                         /\ \A v \in DOMAIN channel_cache \ {vid} :
                               /\ v \in DOMAIN channel_cache'
                               /\ channel_cache'[v] = channel_cache[v]
                    ELSE channel_cache' = channel_cache
            /\ (pc[p] = "idle" /\ pc'[p] \in {"sr_shallow", "sr_done"}) =>
                 /\ channel_cache' = channel_cache
                 /\ (video_id'[p] \in DOMAIN channel_cache
                       /\ now - channel_cache[video_id'[p]].timestamp < 3600) =>
                        /\ pc'[p] = "sr_done"
                        /\ sr'[p].result = channel_cache[video_id'[p]].info
                        /\ sr'[p].fetches = 0
       /\ channel_cache' # channel_cache =>
            \/ channel_cache' = <<>>
            \/ \E p \in Procs : SearchEnds(p) /\ sr'[p].result # None]_vars

\* A lookup was served from the cache, without a page fetch, from the entry an
\* earlier search had stored 1799 seconds before.
C29_Witness ==
    /\ pc["p1"] = "sr_done"
    /\ sr["p1"].source = "cache"
    /\ sr["p1"].fetches = 0
    /\ sr["p1"].had # None
    /\ sr["p1"].had.timestamp = 1799
    /\ sr["p1"].t_call = 3598
    /\ sr["p1"].result = sr["p1"].had.info

(***************************************************************************)
(* The service with one worker, where every transcoder run, every upload   *)
(* and every step of a relay that can be taken is taken in the end.        *)
(***************************************************************************)
SpecApiLive ==
    /\ SpecApi
    /\ WF_vars(\E o \in ApiTranscodes : compress_audio_done("p1", o))
    /\ WF_vars(\E o \in ApiTranscodes : convert_to_webm_done("p1", o))
    /\ WF_vars(\E o \in ApiTranscodes : compress_video_done("p1", o))
    /\ WF_vars(\E r \in ApiPosts : upload_posted("p1", r))
    /\ WF_vars(relay_done("p1"))

\* C30: a relay that has written uploading under its key later writes a
\* terminal status under that key, completed, failed or error, as its second
\* and last write; it is never over, and its request never forgotten, with
\* uploading as the last status it wrote.
C30_RelayTerminates ==
    /\ \A p \in {"p1"} :
          (rq[p].writes = <<"uploading">>) ~>
              (/\ Len(rq[p].writes) = 2
               /\ rq[p].writes[2] \in {"completed", "failed", "error"}
               /\ pc[p] = "bg_done")
    /\ [](\A p \in Procs :
            /\ Len(rq[p].writes) <= 2
            /\ (pc[p] = "bg_done" /\ rq[p].writes # <<>>) =>
                   rq[p].writes[Len(rq[p].writes)] \in {"completed", "failed", "error"})
    /\ [][\A p \in Procs :
             rq[p].writes = <<"uploading">> =>
                 /\ rq'[p].writes # <<>>
                 /\ rq'[p].writes[1] = "uploading"
                 /\ Len(rq'[p].writes) = 2 =>
                       background_upload_tasks'[task_id(video_id[p], media_type[p])].status
                           = rq'[p].writes[2]]_vars

\* A manual relay went through transcode attempts and an upload and has
\* recorded failed.
C30_Witness ==
    /\ pc["p1"] = "bg_done"
    /\ entry["p1"] = "upload_file_directly"
    /\ rq["p1"].attempts # <<>>
    /\ rq["p1"].writes = <<"uploading", "failed">>
    /\ background_upload_tasks[task_id(video_id["p1"], media_type["p1"])].status = "failed"

\* The handler of p's request has produced its response.
Answered(p) == pc[p] \in {"responded", "bg_done"} \/ InRelay(p)

\* C31: /song, /video and /download schedule the background relay exactly
\* when the upload flag is set and download_media returned a success from the
\* primary engine; a result from the directory and a failed request schedule
\* nothing.  The manual relay is scheduled exactly when its own primary fetch
\* succeeded.  A request that scheduled nothing runs no relay step and writes
\* no entry, and the registry changes only by the relay of a request that
\* scheduled one.
C31_ScheduledAfterPrimary ==
    /\ [](\A p \in Procs :
            /\ (entry[p] \in Endpoints /\ Answered(p)) =>
                  /\ rq[p].scheduled <=>
                        /\ rq[p].upload
                        /\ rq[p].download_info.status = "success"
                        /\ rq[p].download_info.source = "local_downloader"
                  /\ rq[p].scheduled => rq[p].local_result.status = "success"
                  /\ rq[p].download_info.source = "telegram_db" => ~rq[p].scheduled
                  /\ rq[p].download_info.status = "error" => ~rq[p].scheduled
                  /\ rq[p].response.background_upload <=> rq[p].scheduled
            /\ (entry[p] = "upload_file_directly" /\ Answered(p)) =>
                  /\ rq[p].scheduled <=> rq[p].local_result.status = "success"
                  /\ ~rq[p].scheduled => rq[p].response.code = 400
            /\ (InRelay(p) \/ pc[p] = "bg_done" \/ rq[p].writes # <<>>) =>
                  /\ rq[p].scheduled
                  /\ rq[p].local_result.status = "success"
                  /\ rq[p].relay_path = rq[p].local_result.file_path)
    /\ [][background_upload_tasks' # background_upload_tasks =>
             \E p \in Procs : rq[p].scheduled /\ rq'[p].writes # rq[p].writes]_vars

\* /song with the upload flag was answered from the directory: nothing is
\* scheduled.
C31_Witness ==
    /\ pc["p1"] = "responded"
    /\ rq["p1"].endpoint = "song"
    /\ rq["p1"].upload
    /\ rq["p1"].download_info.source = "telegram_db"
    /\ rq["p1"].response.code = 200
    /\ ~rq["p1"].scheduled
    /\ background_upload_tasks = <<>>

\* C32: a message whose caption contains the identifier but from which no
\* file_info can be made is passed over: what a search returns after page
\* fetches, and stores in the cache, is the file_info of the first message of
\* the page answered last that contains the identifier and can be classified,
\* with media_type audio or video; and the search goes on to a further page
\* only when the page answered last had no such message.
C32_UnclassifiableSkipped ==
    /\ [](\A p \in Procs :
            /\ (pc[p] = "sr_done" /\ sr[p].source \in {"shallow", "deep"}) =>
                  /\ sr[p].result # None
                  /\ sr[p].result = sr[p].first_match
                  /\ sr[p].result.media_type \in {"audio", "video"}
            /\ (pc[p] = "sr_done" /\ sr[p].source = "") => sr[p].result = None
            /\ (pc[p] = "sr_deep" /\ sr[p].last_len # -1) => sr[p].first_match = None)
    /\ [][\A p \in Procs :
             (pc[p] \in {"sr_shallow", "sr_deep"} /\ pc'[p] = "sr_done"
                 /\ sr'[p].first_match # None) =>
                  /\ sr'[p].result = sr'[p].first_match
                  /\ video_id[p] \in DOMAIN channel_cache'
                  /\ channel_cache'[video_id[p]].info = sr'[p].first_match]_vars

\* The first page held a document that matches and cannot be classified and,
\* after it, an audio that matches: the audio is what the search returned.
C32_Witness ==
    /\ pc["p1"] = "sr_done"
    /\ sr["p1"].source = "shallow"
    /\ sr["p1"].skipped
    /\ sr["p1"].last_len = 2
    /\ sr["p1"].result # None
    /\ sr["p1"].result.message_id = 1
    /\ sr["p1"].result.media_type = "audio"

\* What a search that has returned must have obtained, from the identifier,
\* the cache entry found at the call and the pages answered, and from nothing
\* else.
SecondaryEntry(s) ==
    IF s.source = "cache" THEN s.had.info
    ELSE IF s.source \in {"shallow", "deep"} THEN s.first_match
    ELSE None

\* C33: the secondary fallback does not depend on the requested kind: when
\* the search of a request returns, the entry the request takes is the one
\* fixed by the identifier, the cache and the pages answered, whatever kind
\* was requested; any entry is resolved, whatever its media_type; and the
\* link answered is the link of that entry's file.
C33_KindIndependent ==
    /\ [][\A p \in Procs :
             (pc[p] = "sr_done" /\ entry[p] \in Endpoints /\ pc'[p] # "sr_done") =>
                 /\ rq'[p].db_file = SecondaryEntry(sr[p])
                 /\ pc'[p] = IF SecondaryEntry(sr[p]) # None THEN "dm_url" ELSE "dm_done"]_vars
    /\ [](\A p \in Procs :
             (entry[p] \in Endpoints /\ rq[p].file_url # None) =>
                 /\ rq[p].db_file # None
                 /\ rq[p].file_url = RemoteLink(rq[p].db_file["file_id"])
                 /\ rq[p].download_info.status = "success"
                 /\ rq[p].download_info.source = "telegram_db"
                 /\ rq[p].download_info.link = rq[p].file_url)

\* An audio request and a video request for one identifier, both failed by
\* the fetch tool, hold the same audio entry and the same link.
C33_Witness ==
    /\ entry["p1"] = "song" /\ entry["p2"] = "video"
    /\ media_type["p1"] = "audio" /\ media_type["p2"] = "video"
    /\ video_id["p1"] = video_id["p2"]
    /\ pc["p1"] = "dm_done" /\ pc["p2"] = "dm_done"
    /\ rq["p1"].local_result.status = "error" /\ rq["p2"].local_result.status = "error"
    /\ rq["p1"].db_file # None
    /\ rq["p2"].db_file = rq["p1"].db_file
    /\ rq["p2"].db_file.media_type = "audio"
    /\ rq["p1"].download_info.status = "success"
    /\ rq["p2"].download_info = rq["p1"].download_info

\* C34: in every successful upload result the compressed field is true exactly
\* when the file that was posted is the planner's compressed copy, and false
\* exactly when the original artifact was posted.
C34_CompressedFlag ==
    \A p \in Procs :
        (pc[p] = "up_done" /\ up[p].result.status = "success") =>
            (up[p].result.compressed <=> Substituted(p))

====
